---- MODULE Spec2Model ----
(***************************************************************************)
(* Fleet Commander: the lifecycle manager of packages/core (polling loop,  *)
(* status classification, transition handling, reaction dispatcher with    *)
(* retry / escalation), modelled from packages/core/src/index.ts.          *)
(*                                                                         *)
(* Every `await` of the source is a suspension point: a handler is cut     *)
(* into the atomic steps that run between two suspensions.  Consecutive    *)
(* awaits of read-only plugin probes are taken as one step.                *)
(***************************************************************************)
EXTENDS Integers, Sequences, FiniteSets, TLC

(***************************************************************************)
(* Bounds of the model.                                                    *)
(***************************************************************************)
NumSessions == 1
MaxStimuli == 3
MaxClock == 2
MaxObserved == 4
CheckCost == 2
ClockStepMs == 1000000

Sessions == 1..NumSessions
Slots == {"poll", "direct"}

NULL == "null"

\* type.includes(word), tabulated over the event types
Includes(type, word) ==
    CASE word = "stuck" -> type = "session.stuck"
      [] word = "needs_input" -> type = "session.needs_input"
      [] word = "errored" -> type = "session.errored"
      [] word = "approved" -> type = "review.approved"
      [] word = "ready" -> type = "merge.ready"
      [] word = "merged" -> FALSE
      [] word = "completed" -> type = "merge.completed"
      [] word = "fail" -> type \in {"ci.failing", "ci.fix_failed"}
      [] word = "changes_requested" -> type = "review.changes_requested"
      [] word = "conflicts" -> FALSE
      [] OTHER -> FALSE

inferPriority(type) ==
    IF Includes(type, "stuck") \/ Includes(type, "needs_input") \/ Includes(type, "errored")
    THEN "urgent"
    ELSE IF type = "summary.all_complete" THEN "info"
    ELSE IF Includes(type, "approved") \/ Includes(type, "ready")
            \/ Includes(type, "merged") \/ Includes(type, "completed")
    THEN "action"
    ELSE IF Includes(type, "fail") \/ Includes(type, "changes_requested")
            \/ Includes(type, "conflicts")
    THEN "warning"
    ELSE "info"

statusToEventType(from, to) ==
    CASE to = "working" -> "session.working"
      [] to = "pr_open" -> IF from = "changes_requested" THEN "pr.updated" ELSE "pr.created"
      [] to = "ci_failed" -> "ci.failing"
      [] to = "review_pending" -> "review.pending"
      [] to = "changes_requested" -> "review.changes_requested"
      [] to = "approved" -> "review.approved"
      [] to = "mergeable" -> "merge.ready"
      [] to = "merged" -> "merge.completed"
      [] to = "needs_input" -> "session.needs_input"
      [] to = "stuck" -> "session.stuck"
      [] to = "errored" -> "session.errored"
      [] to = "killed" -> "session.killed"
      [] OTHER -> NULL

eventToReactionKey(eventType) ==
    CASE eventType = "ci.failing" -> "ci-failed"
      [] eventType = "review.changes_requested" -> "changes-requested"
      [] eventType = "automated_review.found" -> "bugbot-comments"
      [] eventType = "merge.conflicts" -> "merge-conflicts"
      [] eventType = "merge.ready" -> "approved-and-green"
      [] eventType = "pr.created" -> "pr-created"
      [] eventType = "pr.updated" -> "pr-updated"
      [] eventType = "session.stuck" -> "agent-stuck"
      [] eventType = "session.needs_input" -> "agent-needs-input"
      [] eventType = "session.killed" -> "agent-exited"
      [] eventType = "summary.all_complete" -> "all-complete"
      [] OTHER -> NULL

\* A duration string "<n><unit>" is the pair <<n, unit>>; anything else does not match.
parseDuration(str) ==
    IF str \notin (Nat \X {"s", "m", "h"}) THEN 0
    ELSE CASE str[2] = "s" -> str[1] * 1000
           [] str[2] = "m" -> str[1] * 60000
           [] str[2] = "h" -> str[1] * 3600000

\* Terminal output is the set of phrases its lower-cased text contains.
checkAgentAwareness(reactionKey, terminalOutput) ==
    CASE reactionKey = "ci-failed" ->
            terminalOutput \cap {"ci fail", "fixing ci", "lint error", "test fail", "build fail"} # {}
      [] reactionKey = "changes-requested" ->
            terminalOutput \cap {"review feedback", "address comment", "changes requested"} # {}
      [] OTHER -> FALSE

(***************************************************************************)
(* Plugin answers.  A probe record holds what the runtime, agent and SCM   *)
(* plugins answer for one session at one moment ("throw": the call         *)
(* rejects).                                                               *)
(*   alive     runtime.isAlive            "yes" | "no" | "throw"           *)
(*   output    runtime.getOutput          "empty" | "text" | "throw"       *)
(*   phrases   phrases the output holds                                    *)
(*   activity  agent.detectActivity       "active" | "idle" | ...          *)
(*   process   agent.isProcessRunning     "yes" | "no" | "throw"           *)
(*   actState  agent.getActivityState     "active" | "idle" | "null"       *)
(*   detect    scm.detectPR               "pr" | "none" | "throw"          *)
(*   prState   scm.getPRState             "open" | "merged" | "closed"     *)
(*   ci        scm.getCISummary           "passing" | "failing" | ...      *)
(*   review    scm.getReviewDecision      "approved" | ...                 *)
(*   mergeable scm.getMergeability        "yes" | "no" | "throw"           *)
(*   failing   number of failed checks of scm.getCIChecks                  *)
(*   scm       whether the project has an SCM plugin                       *)
(***************************************************************************)
BaseProbe ==
    [alive |-> "yes", output |-> "text", phrases |-> {}, activity |-> "active",
     process |-> "yes", actState |-> "active", detect |-> "none", prState |-> "open",
     ci |-> "passing", review |-> "none", mergeable |-> "no", failing |-> 0,
     scm |-> TRUE]

PrProbe == [BaseProbe EXCEPT !.detect = "pr"]

Scenarios ==
    {"working", "open", "cifail", "aware", "changes", "mergeable", "merged", "dead"}

Probe(name) ==
    CASE name = "working" -> BaseProbe
      [] name = "open" -> PrProbe
      [] name = "cifail" -> [PrProbe EXCEPT !.ci = "failing", !.failing = 1]
      [] name = "aware" ->
            [PrProbe EXCEPT !.ci = "failing", !.failing = 1, !.phrases = {"fixing ci"}]
      [] name = "changes" -> [PrProbe EXCEPT !.review = "changes_requested"]
      [] name = "mergeable" -> [PrProbe EXCEPT !.review = "approved", !.mergeable = "yes"]
      [] name = "merged" -> [PrProbe EXCEPT !.prState = "merged"]
      [] name = "dead" -> [PrProbe EXCEPT !.alive = "no"]
      [] name = "exited" -> [BaseProbe EXCEPT !.process = "no"]

\* A merged PR stays merged and a dead runtime stays dead; a PR does not disappear.
EnvTargets(name) ==
    IF name \in {"merged", "dead"} THEN {} ELSE Scenarios \ {"working", name}

(***************************************************************************)
(* determineStatus: the probes in priority order.  The result carries the  *)
(* status, session.pr after the call and whether pr=<url> was written to   *)
(* the metadata.  The session has a project, a runtime handle, a branch,   *)
(* and the agent and runtime plugins are registered.                       *)
(***************************************************************************)
\* the review decision is looked at before the CI summary
PrStatusReviewFirst(sess, p) ==
    IF p.prState = "throw" THEN NULL
    ELSE IF p.prState = "merged" THEN "merged"
    ELSE IF p.prState = "closed" THEN "killed"
    ELSE IF p.review = "throw" THEN NULL
    ELSE IF p.review = "changes_requested" THEN "changes_requested"
    ELSE IF p.ci = "throw" THEN NULL
    ELSE IF p.ci = "failing" THEN "ci_failed"
    ELSE IF p.review = "approved"
         THEN (IF p.mergeable = "throw" THEN NULL
               ELSE IF p.mergeable = "yes" THEN "mergeable" ELSE "approved")
    ELSE IF p.review = "pending" THEN "review_pending"
    ELSE "pr_open"

PrStatus(sess, p) ==
    IF p.prState = "throw" THEN NULL
    ELSE IF p.prState = "merged" THEN "merged"
    ELSE IF p.prState = "closed" THEN "killed"
    ELSE IF p.ci = "throw" THEN NULL
    ELSE IF p.ci = "failing" THEN "ci_failed"
    ELSE IF p.review = "throw" THEN NULL
    ELSE IF p.review = "changes_requested" THEN "changes_requested"
    ELSE IF p.review = "approved"
         THEN (IF p.mergeable = "throw" THEN NULL
               ELSE IF p.mergeable = "yes" THEN "mergeable" ELSE "approved")
    ELSE IF p.review = "pending" THEN "review_pending"
    ELSE "pr_open"

\* the fallback returns the current status, whatever it is
FallbackKeepsStatus(sess) == sess.status

FallbackStatus(sess) ==
    IF sess.status \in {"spawning", "stuck", "needs_input"} THEN "working" ELSE sess.status

ActivityStatus(sess, p) ==
    LET caught == IF sess.status \in {"stuck", "needs_input"} THEN sess.status ELSE NULL
    IN  IF p.output = "throw" THEN caught
        ELSE IF p.output = "empty" THEN NULL
        ELSE IF p.activity = "waiting_input" THEN "needs_input"
        ELSE IF p.process = "throw" THEN caught
        ELSE IF p.process = "no" THEN "killed"
        ELSE NULL

\* the plugin calls of step 2 and of step 4, in the order they are awaited
ActivityProbes(p) ==
    IF p.output \in {"throw", "empty"} THEN <<"getOutput">>
    ELSE IF p.activity = "waiting_input" THEN <<"getOutput", "detectActivity">>
    ELSE <<"getOutput", "detectActivity", "isProcessRunning">>

PrProbes(p) ==
    IF p.prState \in {"throw", "merged", "closed"} THEN <<"getPRState">>
    ELSE IF p.ci \in {"throw", "failing"} THEN <<"getPRState", "getCISummary">>
    ELSE IF p.review = "approved"
    THEN <<"getPRState", "getCISummary", "getReviewDecision", "getMergeability">>
    ELSE <<"getPRState", "getCISummary", "getReviewDecision">>

\* the PR state is looked at before the runtime's liveness
determineStatusPrFirst(sess, p) ==
    IF sess.pr /\ PrStatus(sess, p) = "merged"
    THEN [status |-> "merged", pr |-> sess.pr, prWritten |-> FALSE,
          invoked |-> <<"getPRState">>]
    ELSE IF p.alive = "no"
    THEN [status |-> "killed", pr |-> sess.pr, prWritten |-> FALSE,
          invoked |-> <<"getPRState", "isAlive">>]
    ELSE [status |-> FallbackStatus(sess), pr |-> sess.pr, prWritten |-> FALSE,
          invoked |-> <<"getPRState", "isAlive">>]

\* a detected PR is persisted, its state is looked at by the next call only
determineStatusDetectOnly(sess, p) ==
    IF p.alive = "no"
    THEN [status |-> "killed", pr |-> sess.pr, prWritten |-> FALSE, invoked |-> <<"isAlive">>]
    ELSE IF ActivityStatus(sess, p) # NULL
    THEN [status |-> ActivityStatus(sess, p), pr |-> sess.pr, prWritten |-> FALSE,
          invoked |-> <<"isAlive">> \o ActivityProbes(p)]
    ELSE IF ~sess.pr
    THEN [status |-> FallbackStatus(sess), pr |-> p.detect = "pr",
          prWritten |-> p.detect = "pr",
          invoked |-> <<"isAlive">> \o ActivityProbes(p) \o <<"detectPR">>]
    ELSE [status |-> IF PrStatus(sess, p) # NULL THEN PrStatus(sess, p)
                     ELSE FallbackStatus(sess),
          pr |-> TRUE, prWritten |-> FALSE,
          invoked |-> <<"isAlive">> \o ActivityProbes(p) \o PrProbes(p)]

\* invoked: the plugin calls determineStatus made, in order
determineStatus(sess, p) ==
    IF p.alive = "no"
    THEN [status |-> "killed", pr |-> sess.pr, prWritten |-> FALSE, invoked |-> <<"isAlive">>]
    ELSE IF ActivityStatus(sess, p) # NULL
    THEN [status |-> ActivityStatus(sess, p), pr |-> sess.pr, prWritten |-> FALSE,
          invoked |-> <<"isAlive">> \o ActivityProbes(p)]
    ELSE LET detected == ~sess.pr /\ p.scm /\ p.detect = "pr"
             hasPr == sess.pr \/ detected
             st == IF hasPr /\ p.scm THEN PrStatus(sess, p) ELSE NULL
         IN  [status |-> IF st # NULL THEN st ELSE FallbackStatus(sess),
              pr |-> hasPr, prWritten |-> detected,
              invoked |-> <<"isAlive">> \o ActivityProbes(p)
                          \o (IF sess.pr \/ ~p.scm THEN <<>> ELSE <<"detectPR">>)
                          \o (IF hasPr /\ p.scm THEN PrProbes(p) ELSE <<>>)]

(***************************************************************************)
(* Configuration: config.reactions, the notification routing.              *)
(* retries = NoRetries stands for an absent `retries` (Infinity);          *)
(* escalateAfter is absent ("none"), a duration string or a number.        *)
(* ci-failed is configured as in the CI-fix scenarios (retries: 2,         *)
(* escalateAfter: "30m", no priority), changes-requested with a numeric    *)
(* escalateAfter and a priority.                                           *)
(***************************************************************************)
NoRetries == -1

NoEscalateAfter == [kind |-> "none"]

DurationString(n, unit) == [kind |-> "string", text |-> <<n, unit>>]

AttemptCount(n) == [kind |-> "number", n |-> n]

Reactions ==
    [k \in {"ci-failed", "changes-requested", "approved-and-green", "all-complete"} |->
        CASE k = "ci-failed" ->
                [action |-> "send-to-agent", message |-> TRUE, retries |-> 2,
                 escalateAfter |-> DurationString(30, "m"), priority |-> NULL, auto |-> TRUE]
          [] k = "changes-requested" ->
                [action |-> "send-to-agent", message |-> TRUE, retries |-> NoRetries,
                 escalateAfter |-> AttemptCount(1), priority |-> "action", auto |-> TRUE]
          [] k = "approved-and-green" ->
                [action |-> "notify", message |-> FALSE, retries |-> NoRetries,
                 escalateAfter |-> NoEscalateAfter, priority |-> "action", auto |-> TRUE]
          [] k = "all-complete" ->
                [action |-> "notify", message |-> FALSE, retries |-> NoRetries,
                 escalateAfter |-> NoEscalateAfter, priority |-> "info", auto |-> TRUE]]

Keys == DOMAIN Reactions \ {"all-complete"}

\* true when checkSession hands the transition to executeReaction
ReactionRuns(key) ==
    /\ key \in DOMAIN Reactions
    /\ Reactions[key].action # NULL
    /\ (Reactions[key].auto # FALSE \/ Reactions[key].action = "notify")

\* the retry limit compared with >= : the last allowed attempt escalates
shouldEscalateAtLimit(attempts, firstTriggered, clock, cfg) ==
    \/ (cfg.retries # NoRetries /\ attempts >= cfg.retries)
    \/ (cfg.escalateAfter.kind = "string"
        /\ parseDuration(cfg.escalateAfter.text) > 0
        /\ clock - firstTriggered > parseDuration(cfg.escalateAfter.text))
    \/ (cfg.escalateAfter.kind = "number" /\ attempts > cfg.escalateAfter.n)

shouldEscalate(attempts, firstTriggered, clock, cfg) ==
    \/ (cfg.retries # NoRetries /\ attempts > cfg.retries)
    \/ (cfg.escalateAfter.kind = "string"
        /\ parseDuration(cfg.escalateAfter.text) > 0
        /\ clock - firstTriggered > parseDuration(cfg.escalateAfter.text))
    \/ (cfg.escalateAfter.kind = "number" /\ attempts > cfg.escalateAfter.n)

EscalationPriority(cfg) == IF cfg.priority # NULL THEN cfg.priority ELSE "urgent"

(***************************************************************************)
(* State.                                                                  *)
(*   env, now            the plugins' answers per session, the clock       *)
(*   meta                session metadata files (status, pr, persisted     *)
(*                       reaction_<key>_attempts / _firstTriggered)        *)
(*   states, trackers    the manager's in-memory maps                      *)
(*   sysTracker          attempts of the tracker "system:all-complete"     *)
(*   pollTimer, polling, allCompleteEmitted   the manager's flags          *)
(*   inflight, pollPc, snap   the running pollAll invocations, the         *)
(*                       position of the cycle and the list() it got       *)
(*   tasks               the running checkSession calls, per session one   *)
(*                       of the poll cycle and one of a direct check(id)   *)
(*   events              events.jsonl                                      *)
(*   notifications       what notifyHuman handed to the notifiers          *)
(*   sends               messages delivered through sessionManager.send    *)
(*   budget              external stimuli still allowed: a change of the   *)
(*                       plugins' answers takes 1, a direct check(id)      *)
(*                       call takes CheckCost                              *)
(*   history, obs        bookkeeping for the properties: the transitions   *)
(*                       handled, and what the consecutive poll cycles     *)
(*                       that classified a session ci_failed observed;     *)
(*                       fresh: the session started with nothing persisted *)
(*   call                one call of a function on its own: the arguments  *)
(*                       and, once it has returned, the result             *)
(*   plan                the plan file: status, dependencies and sessionId *)
(*                       of each task                                      *)
(*   spawns              sessionManager.spawn calls that succeeded, per    *)
(*                       task, and whether its dependencies were merged    *)
(*   readyCall           per handler, the plan as its spawnReadyTasks call *)
(*                       read it, with the sessionIds the call has set     *)
(*   rebases             per merged session: the siblings its handler      *)
(*                       listed, still has to message, and has messaged    *)
(*   outcomes            outcomes.jsonl                                    *)
(***************************************************************************)
VARIABLES env, now, meta, states, trackers, sysTracker, pollTimer, polling,
          allCompleteEmitted, inflight, pollPc, snap, tasks, events,
          notifications, sends, budget, history, obs, fresh, call, plan, spawns,
          readyCall, rebases, outcomes, summaryDue, store, planning

vars == <<env, now, meta, states, trackers, sysTracker, pollTimer, polling,
          allCompleteEmitted, inflight, pollPc, snap, tasks, events,
          notifications, sends, budget, history, obs, fresh, call, plan, spawns,
          readyCall, rebases, outcomes, summaryDue, store, planning>>

SystemId == 0

NoTracker == [attempts |-> 0, first |-> -1]

NoSession == [status |-> NULL, pr |-> FALSE]

IdleTask ==
    [pc |-> "idle", old |-> NULL, new |-> NULL, key |-> NULL, ref |-> "none",
     own |-> NoTracker, sess |-> NoSession]

\* createEvent: the fields of an event the properties read.  att is data.attempt
\* or data.attempts, key data.reactionKey, skipped data.skipped, from / to
\* data.oldStatus / data.newStatus.
createEvent(type, sid, att, key, skipped, from, to) ==
    [type |-> type, sid |-> sid, att |-> att, key |-> key, skipped |-> skipped,
     from |-> from, to |-> to]

Notification(type, sid, priority) == [type |-> type, sid |-> sid, priority |-> priority]

\* A session starts fresh (working, no PR, nothing persisted), or it was handled by
\* an earlier run of the manager that left its metadata behind: an open PR and the
\* ci-failed retries used up.
FreshMeta ==
    [status |-> "working", pr |-> FALSE,
     att |-> [k \in Keys |-> 0], first |-> [k \in Keys |-> -1]]

RestoredMeta ==
    [status |-> "pr_open", pr |-> TRUE,
     att |-> [k \in Keys |-> IF k = "ci-failed" THEN Reactions[k].retries ELSE 0],
     first |-> [k \in Keys |-> IF k = "ci-failed" THEN 0 ELSE -1]]

\* The manager after createLifecycleManager, over the sessions ids: nothing
\* tracked, no timer, no cycle in flight.
ManagerCreated(ids) ==
    /\ now = 0
    /\ states = [s \in ids |-> "none"]
    /\ trackers = [s \in ids |-> [k \in Keys |-> NoTracker]]
    /\ sysTracker = 0
    /\ pollTimer = FALSE
    /\ polling = FALSE
    /\ allCompleteEmitted = FALSE
    /\ inflight = 0
    /\ pollPc = "idle"
    /\ snap = [s \in ids |-> NULL]
    /\ tasks = [s \in ids |-> [sl \in Slots |-> IdleTask]]
    /\ events = <<>>
    /\ notifications = <<>>
    /\ sends = [s \in ids |-> 0]
    /\ budget = MaxStimuli
    /\ history = <<>>
    /\ obs = [s \in ids |-> <<>>]
    /\ outcomes = <<>>
    /\ summaryDue = TRUE

NoCall == [fn |-> NULL]

NoPlan == [status |-> NULL]

\* what surrounds a plan: whether the project has a tracker, the planning agent's
\* output file, the activity of the planning session, the tasks an issue was created for
NoPlanning == [tracker |-> FALSE, output |-> "none", planner |-> "none", issues |-> {}]

\* no plan is executed
PlanAbsent ==
    /\ plan = NoPlan
    /\ planning = NoPlanning
    /\ spawns = <<>>
    /\ readyCall = <<>>
    /\ rebases = <<>>

NoStore == [maxEvents |-> 0]

\* no event store of its own is looked at: the events the manager appends are in events
StoreAbsent == store = NoStore

Init ==
    /\ \E restored \in SUBSET Sessions :
          /\ env = [s \in Sessions |-> IF s \in restored THEN "open" ELSE "working"]
          /\ meta = [s \in Sessions |-> IF s \in restored THEN RestoredMeta ELSE FreshMeta]
          /\ fresh = [s \in Sessions |-> s \notin restored]
    /\ ManagerCreated(Sessions)
    /\ call = NoCall
    /\ PlanAbsent
    /\ StoreAbsent

(***************************************************************************)
(* The environment: plugin answers change, time passes.                    *)
(***************************************************************************)
EnvChange(s) ==
    /\ budget > 0
    /\ \E e \in EnvTargets(env[s]) : env' = [env EXCEPT ![s] = e]
    /\ budget' = budget - 1
    /\ UNCHANGED <<now, meta, states, trackers, sysTracker, pollTimer, polling,
                   allCompleteEmitted, inflight, pollPc, snap, tasks, events,
                   notifications, sends, history, obs, fresh, call, plan, spawns,
                   readyCall, rebases, outcomes, summaryDue, store, planning>>

Advance ==
    /\ now < MaxClock * ClockStepMs
    /\ now' = now + ClockStepMs
    /\ UNCHANGED <<env, meta, states, trackers, sysTracker, pollTimer, polling,
                   allCompleteEmitted, inflight, pollPc, snap, tasks, events,
                   notifications, sends, budget, history, obs, fresh, call, plan,
                   spawns, readyCall, rebases, outcomes, summaryDue, store, planning>>

(***************************************************************************)
(* Session manager (session-manager.ts is not part of the sources: get and *)
(* list are taken from the specification).  get returns the persisted      *)
(* session; list marks a session whose runtime is dead as killed.          *)
(***************************************************************************)
TERMINAL_STATUSES == {"merged", "killed", "done"}

SessionManagerGet(s) == [status |-> meta[s].status, pr |-> meta[s].pr]

\* the sessions that exist: those with a metadata file
Existing == {s \in DOMAIN meta : meta[s].status # NULL}

SessionManagerList(s) ==
    [status |-> IF Probe(env[s]).alive = "no" THEN "killed" ELSE meta[s].status,
     pr |-> meta[s].pr]

\* the metadata after list() has marked the sessions with a dead runtime
MarkedKilled(listed) ==
    [s \in DOMAIN meta |->
        IF s \in DOMAIN listed THEN [meta[s] EXCEPT !.status = listed[s].status]
        ELSE meta[s]]

\* session.metadata of a listed or fetched session: the persisted key=value pairs
SessionMetadata(s) == meta[s]

(***************************************************************************)
(* executeReaction.                                                        *)
(***************************************************************************)
\* The tracker object a running executeReaction holds: the entry of the map
\* while it is still there, else the object as it was when it left the map.
TrackerOf(s, t) == IF t.ref = "map" THEN trackers[s][t.key] ELSE t.own

\* reactionTrackers.delete / set of (s, k): calls that hold the old object keep it
Detached(s, k) ==
    [sl \in Slots |->
        IF tasks[s][sl].ref = "map" /\ tasks[s][sl].key = k
        THEN [tasks[s][sl] EXCEPT !.ref = "own", !.own = trackers[s][k]]
        ELSE tasks[s][sl]]

\* From the increment to the first await: the escalation decision and the
\* synchronous part of the action.  attempts is the counter after tracker.attempts++.
RxBegin(s, key, attempts, first) ==
    LET cfg == Reactions[key]
    IN  IF shouldEscalate(attempts, first, now, cfg)
        THEN [events |-> <<createEvent("reaction.escalated", s, attempts, key, FALSE,
                                       NULL, NULL)>>,
              pc |-> "rx_esc_notify"]
        ELSE IF cfg.action = "send-to-agent"
        THEN [events |-> <<>>, pc |-> IF cfg.message THEN "rx_dedup" ELSE "idle"]
        ELSE IF cfg.action \in {"notify", "auto-merge"}
        THEN [events |-> <<createEvent("reaction.triggered", s, 0, key, FALSE,
                                       NULL, NULL)>>,
              pc |-> "rx_notify"]
        ELSE [events |-> <<>>, pc |-> "idle"]

\* The task record of a call that continues at pc (a finished call leaves no state).
Continue(t, pc) == IF pc = "idle" THEN IdleTask ELSE [t EXCEPT !.pc = pc]

(***************************************************************************)
(* checkSession, first step: the call resumes when determineStatus         *)
(* returns, and runs up to its first await.                                *)
(***************************************************************************)
CiResolved(new) == new \in {"pr_open", "review_pending", "approved", "mergeable"}

OldReactionKey(old) ==
    IF statusToEventType(NULL, old) = NULL THEN NULL
    ELSE eventToReactionKey(statusToEventType(NULL, old))

Observe(s, sl, new, p) ==
    IF sl # "poll" THEN obs[s]
    ELSE IF new # "ci_failed" THEN <<>>
    ELSE IF Len(obs[s]) >= MaxObserved THEN obs[s]
    ELSE Append(obs[s], p.actState = "active" /\ checkAgentAwareness("ci-failed", p.phrases))

Classify(s, sl) ==
    LET t == tasks[s][sl]
        p == Probe(env[s])
        r == determineStatus(t.sess, p)
        new == r.status
        old == t.old
        meta1 == IF r.prWritten THEN [meta EXCEPT ![s].pr = TRUE] ELSE meta
        ciTr == trackers[s]["ci-failed"]
        ciEv == IF old = "ci_failed" /\ ciTr.attempts > 0
                THEN <<createEvent(IF CiResolved(new) THEN "ci.passing" ELSE "ci.fix_failed",
                                   s, ciTr.attempts, NULL, FALSE, old, new)>>
                ELSE <<>>
        oldKey == OldReactionKey(old)
        cleared == oldKey \in Keys
        trackers1 == IF cleared THEN [trackers EXCEPT ![s][oldKey] = NoTracker] ELSE trackers
        tasks1 == IF cleared THEN Detached(s, oldKey) ELSE tasks[s]
        evType == statusToEventType(old, new)
        trEv == IF evType # NULL
                THEN <<createEvent(evType, s, 0, NULL, FALSE, old, new)>>
                ELSE <<>>
        key == IF evType # NULL THEN eventToReactionKey(evType) ELSE NULL
        runs == key # NULL /\ ReactionRuns(key)
        tr == trackers1[s][key]
        begin == RxBegin(s, key, tr.attempts + 1, tr.first)
        t1 == [t EXCEPT !.new = new, !.key = key]
    IN  /\ t.pc = "classify"
        /\ obs' = [obs EXCEPT ![s] = Observe(s, sl, new, p)]
        /\ states' = [states EXCEPT ![s] = new]
        /\ IF new = old
           THEN /\ meta' = meta1
                /\ tasks' = [tasks EXCEPT ![s][sl] = IdleTask]
                /\ UNCHANGED <<trackers, events, allCompleteEmitted, history>>
           ELSE /\ meta' = [meta1 EXCEPT ![s].status = new]
                /\ allCompleteEmitted' =
                      IF new # "merged" /\ new # "killed" THEN FALSE ELSE allCompleteEmitted
                /\ history' = Append(history, [sid |-> s, from |-> old, to |-> new,
                                               att |-> ciTr.attempts])
                /\ IF ~runs
                   THEN /\ trackers' = trackers1
                        /\ events' = events \o ciEv \o trEv
                        /\ tasks' = [tasks EXCEPT ![s] = [tasks1 EXCEPT ![sl] =
                              IF evType # NULL /\ inferPriority(evType) # "info"
                              THEN [t1 EXCEPT !.pc = "notify_direct"]
                              ELSE IdleTask]]
                   ELSE IF tr.attempts = 0
                   THEN /\ trackers' = trackers1
                        /\ events' = events \o ciEv \o trEv
                        /\ tasks' = [tasks EXCEPT ![s] = [tasks1 EXCEPT ![sl] =
                              [t1 EXCEPT !.pc = "rx_restore"]]]
                   ELSE /\ trackers' = [trackers1 EXCEPT ![s][key].attempts = @ + 1]
                        /\ events' = events \o ciEv \o trEv \o begin.events
                        /\ tasks' = [tasks EXCEPT ![s] = [tasks1 EXCEPT ![sl] =
                              Continue([t1 EXCEPT !.ref = "map"], begin.pc)]]
        /\ UNCHANGED <<env, now, sysTracker, pollTimer, polling, inflight, pollPc, snap,
                       notifications, sends, budget, fresh, call, plan, spawns,
                       readyCall, rebases, outcomes, summaryDue, store, planning>>

(***************************************************************************)
(* executeReaction, the steps after each await.                            *)
(***************************************************************************)
\* No tracker in the map: after `await sessionManager.get` the tracker is restored
\* from the metadata (or starts at 0, now), stored, incremented.
RxRestore(s, sl) ==
    LET t == tasks[s][sl]
        md == SessionMetadata(s)
        saved == [attempts |-> md.att[t.key],
                  first |-> IF md.first[t.key] # -1 THEN md.first[t.key] ELSE now]
        begin == RxBegin(s, t.key, saved.attempts + 1, saved.first)
        others == Detached(s, t.key)
    IN  /\ t.pc = "rx_restore"
        /\ trackers' = [trackers EXCEPT ![s][t.key] =
                           [attempts |-> saved.attempts + 1, first |-> saved.first]]
        /\ events' = events \o begin.events
        /\ tasks' = [tasks EXCEPT ![s] = [others EXCEPT ![sl] =
                        Continue([t EXCEPT !.ref = "map"], begin.pc)]]
        /\ UNCHANGED <<env, now, meta, states, sysTracker, pollTimer, polling,
                       allCompleteEmitted, inflight, pollPc, snap, notifications, sends,
                       budget, history, obs, fresh, call, plan, spawns, readyCall,
                       rebases, outcomes, summaryDue, store, planning>>

\* await notifyHuman(event, reactionConfig.priority ?? "urgent") of an escalation
RxEscNotify(s, sl) ==
    LET t == tasks[s][sl]
    IN  /\ t.pc = "rx_esc_notify"
        /\ notifications' = Append(notifications,
              Notification("reaction.escalated", s, EscalationPriority(Reactions[t.key])))
        /\ tasks' = [tasks EXCEPT ![s][sl] = IdleTask]
        /\ UNCHANGED <<env, now, meta, states, trackers, sysTracker, pollTimer, polling,
                       allCompleteEmitted, inflight, pollPc, snap, events, sends,
                       budget, history, obs, fresh, call, plan, spawns, readyCall,
                       rebases, outcomes, summaryDue, store, planning>>

NotifyPriority(cfg) ==
    IF cfg.action = "notify"
    THEN (IF cfg.priority # NULL THEN cfg.priority ELSE "info")
    ELSE "action"

\* await notifyHuman of the actions notify and auto-merge
RxNotify(s, sl) ==
    LET t == tasks[s][sl]
    IN  /\ t.pc = "rx_notify"
        /\ notifications' = Append(notifications,
              Notification("reaction.triggered", s, NotifyPriority(Reactions[t.key])))
        /\ tasks' = [tasks EXCEPT ![s][sl] = IdleTask]
        /\ UNCHANGED <<env, now, meta, states, trackers, sysTracker, pollTimer, polling,
                       allCompleteEmitted, inflight, pollPc, snap, events, sends,
                       budget, history, obs, fresh, call, plan, spawns, readyCall,
                       rebases, outcomes, summaryDue, store, planning>>

\* checkSession: no reaction took the transition; await notifyHuman(event, priority)
NotifyDirect(s, sl) ==
    LET t == tasks[s][sl]
        evType == statusToEventType(t.old, t.new)
    IN  /\ t.pc = "notify_direct"
        /\ notifications' = Append(notifications,
              Notification(evType, s, inferPriority(evType)))
        /\ tasks' = [tasks EXCEPT ![s][sl] = IdleTask]
        /\ UNCHANGED <<env, now, meta, states, trackers, sysTracker, pollTimer, polling,
                       allCompleteEmitted, inflight, pollPc, snap, events, sends,
                       budget, history, obs, fresh, call, plan, spawns, readyCall,
                       rebases, outcomes, summaryDue, store, planning>>

\* send-to-agent: the dedup check, then (ci-failed) the enrichment of the message
AgentAware(key, p) ==
    /\ p.actState = "active"
    /\ p.output = "text"
    /\ checkAgentAwareness(key, p.phrases)

RxDedup(s, sl) ==
    LET t == tasks[s][sl]
        p == Probe(env[s])
        session == SessionManagerGet(s)
        enrich == IF t.key = "ci-failed" /\ session.pr /\ p.failing > 0
                  THEN <<createEvent("ci.failing", s, TrackerOf(s, t).attempts, NULL,
                                     FALSE, NULL, NULL)>>
                  ELSE <<>>
    IN  /\ t.pc = "rx_dedup"
        /\ IF AgentAware(t.key, p)
           THEN /\ events' = Append(events,
                      createEvent("reaction.triggered", s, 0, t.key, TRUE, NULL, NULL))
                /\ tasks' = [tasks EXCEPT ![s][sl] = IdleTask]
           ELSE /\ events' = events \o enrich
                /\ tasks' = [tasks EXCEPT ![s][sl].pc = "rx_send"]
        /\ UNCHANGED <<env, now, meta, states, trackers, sysTracker, pollTimer, polling,
                       allCompleteEmitted, inflight, pollPc, snap, notifications, sends,
                       budget, history, obs, fresh, call, plan, spawns, readyCall,
                       rebases, outcomes, summaryDue, store, planning>>

\* await sessionManager.send resolves
RxSendOk(s, sl) ==
    /\ tasks[s][sl].pc = "rx_send"
    /\ sends' = [sends EXCEPT ![s] = @ + 1]
    /\ tasks' = [tasks EXCEPT ![s][sl].pc = "rx_record"]
    /\ UNCHANGED <<env, now, meta, states, trackers, sysTracker, pollTimer, polling,
                   allCompleteEmitted, inflight, pollPc, snap, events, notifications,
                   budget, history, obs, fresh, call, plan, spawns, readyCall, rebases,
                   outcomes, summaryDue, store, planning>>

\* await sessionManager.send rejects: the call returns success: false
RxSendFail(s, sl) ==
    /\ tasks[s][sl].pc = "rx_send"
    /\ tasks' = [tasks EXCEPT ![s][sl] = IdleTask]
    /\ UNCHANGED <<env, now, meta, states, trackers, sysTracker, pollTimer, polling,
                   allCompleteEmitted, inflight, pollPc, snap, events, notifications,
                   sends, budget, history, obs, fresh, call, plan, spawns, readyCall,
                   rebases, outcomes, summaryDue, store, planning>>

\* after the send: ci.fix_sent, then the tracker is persisted to the metadata
RxRecord(s, sl) ==
    LET t == tasks[s][sl]
        trk == TrackerOf(s, t)
        session == SessionManagerGet(s)
        fixSent == IF t.key = "ci-failed" /\ session.pr
                   THEN <<createEvent("ci.fix_sent", s, trk.attempts, NULL, FALSE,
                                      NULL, NULL)>>
                   ELSE <<>>
    IN  /\ t.pc = "rx_record"
        /\ events' = events \o fixSent
        /\ meta' = [meta EXCEPT ![s].att[t.key] = trk.attempts,
                                ![s].first[t.key] = trk.first]
        /\ tasks' = [tasks EXCEPT ![s][sl] = IdleTask]
        /\ UNCHANGED <<env, now, states, trackers, sysTracker, pollTimer, polling,
                       allCompleteEmitted, inflight, pollPc, snap, notifications, sends,
                       budget, history, obs, fresh, call, plan, spawns, readyCall,
                       rebases, outcomes, summaryDue, store, planning>>

(***************************************************************************)
(* pollAll, start, stop, check.                                            *)
(***************************************************************************)
\* the old status checkSession compares with: the tracked one, else the persisted one
OldStatus(s, session) ==
    IF states[s] # "none" THEN states[s]
    ELSE IF SessionMetadata(s).status # NULL THEN SessionMetadata(s).status
    ELSE session.status

StartTask(s, session) ==
    [IdleTask EXCEPT !.pc = "classify", !.old = OldStatus(s, session), !.sess = session]

\* pollAll without its re-entrancy guard
PollGuardMissing == FALSE

\* if (polling) return
PollGuard == polling

\* pollAll up to `await sessionManager.list()`
PollAllCall ==
    IF PollGuard
    THEN UNCHANGED <<polling, inflight, pollPc>>
    ELSE /\ polling' = TRUE
         /\ inflight' = inflight + 1
         /\ pollPc' = "listing"

\* an interval that keeps firing whether or not it is set
TimerNotCleared == TRUE

TimerLive == pollTimer

\* the interval timer fires
Tick ==
    /\ TimerLive
    /\ PollAllCall
    /\ UNCHANGED <<env, now, meta, states, trackers, sysTracker, pollTimer,
                   allCompleteEmitted, snap, tasks, events, notifications, sends,
                   budget, history, obs, fresh, call, plan, spawns, readyCall, rebases,
                   outcomes, summaryDue, store, planning>>

Start ==
    /\ ~pollTimer
    /\ pollTimer' = TRUE
    /\ PollAllCall
    /\ UNCHANGED <<env, now, meta, states, trackers, sysTracker, allCompleteEmitted,
                   snap, tasks, events, notifications, sends, budget, history, obs,
                   fresh, call, plan, spawns, readyCall, rebases, outcomes, summaryDue,
                   store, planning>>

StopTimer == FALSE

Stop ==
    /\ pollTimer
    /\ pollTimer' = StopTimer
    /\ UNCHANGED <<env, now, meta, states, trackers, sysTracker, polling,
                   allCompleteEmitted, inflight, pollPc, snap, tasks, events,
                   notifications, sends, budget, history, obs, fresh, call, plan,
                   spawns, readyCall, rebases, outcomes, summaryDue, store, planning>>

\* finally { polling = false }
PollFinish ==
    /\ polling' = FALSE
    /\ inflight' = inflight - 1
    /\ pollPc' = "idle"

\* sessions.filter(...) of pollAll
ToCheck(listed) ==
    {s \in DOMAIN listed :
        \/ listed[s].status \notin {"merged", "killed"}
        \/ (states[s] # "none" /\ states[s] # listed[s].status)}

\* list() resolves: the sessions to check are selected and every checkSession call
\* runs up to its first await.  summaryDue is a history variable: a listing has shown
\* a session in a non-terminal status since the last all-complete summary, or no
\* summary was emitted yet.
PollList ==
    LET listed == [s \in Existing |-> SessionManagerList(s)]
    IN  /\ pollPc = "listing"
        /\ summaryDue' = (summaryDue \/ \E s \in Existing :
                                            listed[s].status \notin TERMINAL_STATUSES)
        /\ meta' = MarkedKilled(listed)
        /\ snap' = [s \in DOMAIN meta |-> IF s \in Existing THEN listed[s].status ELSE NULL]
        /\ tasks' = [s \in DOMAIN tasks |->
                       IF s \in ToCheck(listed)
                       THEN [tasks[s] EXCEPT !["poll"] = StartTask(s, listed[s])]
                       ELSE tasks[s]]
        /\ pollPc' = "checking"
        /\ UNCHANGED <<env, now, states, trackers, sysTracker, pollTimer, polling,
                       allCompleteEmitted, inflight, events, notifications, sends,
                       budget, history, obs, fresh, call, plan, spawns, readyCall,
                       rebases, outcomes, store, planning>>

\* list() rejects: catch, finally
PollListFails ==
    /\ pollPc = "listing"
    /\ PollFinish
    /\ UNCHANGED <<env, now, meta, states, trackers, sysTracker, pollTimer,
                   allCompleteEmitted, snap, tasks, events, notifications, sends,
                   budget, history, obs, fresh, call, plan, spawns, readyCall, rebases,
                   outcomes, summaryDue, store, planning>>

\* sessions.length > 0 && activeSessions.length === 0
AllComplete ==
    /\ \E s \in DOMAIN snap : snap[s] # NULL
    /\ \A s \in DOMAIN snap : snap[s] # NULL => snap[s] \in {"merged", "killed"}

\* nothing is removed from the status cache
KeepStates(listed) == states

\* states.delete(trackedId) for the ids the list of this cycle does not hold
PruneStates(listed) ==
    [s \in DOMAIN states |-> IF listed[s] = NULL THEN "none" ELSE states[s]]

\* reactionTrackers.delete(trackerKey) for the keys of those ids
PruneTrackers(listed) ==
    [s \in DOMAIN trackers |->
        IF listed[s] = NULL THEN [k \in DOMAIN trackers[s] |-> NoTracker] ELSE trackers[s]]

\* Promise.allSettled resolves: pruning, then the all-complete check
PollSettle ==
    /\ pollPc = "checking"
    /\ \A s \in DOMAIN tasks : tasks[s]["poll"].pc = "idle"
    /\ states' = PruneStates(snap)
    /\ trackers' = PruneTrackers(snap)
    /\ sysTracker' = 0
    /\ IF AllComplete /\ ~allCompleteEmitted
       THEN /\ allCompleteEmitted' = TRUE
            /\ summaryDue' = FALSE
            /\ IF ReactionRuns("all-complete")
               THEN /\ pollPc' = "sys_restore"
                    /\ UNCHANGED <<polling, inflight>>
               ELSE PollFinish
       ELSE /\ PollFinish
            /\ UNCHANGED <<allCompleteEmitted, summaryDue>>
    /\ snap' = IF pollPc' = "idle" THEN [s \in DOMAIN snap |-> NULL] ELSE snap
    /\ UNCHANGED <<env, now, meta, pollTimer, tasks, events, notifications, sends,
                   budget, history, obs, fresh, call, plan, spawns, readyCall, rebases,
                   outcomes, store, planning>>

\* executeReaction("system", "all", "all-complete"): the tracker was pruned, so it
\* is created after `await sessionManager.get`; the action notify appends its event
SysRestore ==
    /\ pollPc = "sys_restore"
    /\ sysTracker' = 1
    /\ events' = Append(events, createEvent("reaction.triggered", SystemId, 0,
                                            "all-complete", FALSE, NULL, NULL))
    /\ pollPc' = "sys_notify"
    /\ UNCHANGED <<env, now, meta, states, trackers, pollTimer, polling,
                   allCompleteEmitted, inflight, snap, tasks, notifications, sends,
                   budget, history, obs, fresh, call, plan, spawns, readyCall, rebases,
                   outcomes, summaryDue, store, planning>>

SysNotify ==
    /\ pollPc = "sys_notify"
    /\ notifications' = Append(notifications,
          Notification("reaction.triggered", SystemId,
                       NotifyPriority(Reactions["all-complete"])))
    /\ PollFinish
    /\ snap' = [s \in DOMAIN snap |-> NULL]
    /\ UNCHANGED <<env, now, meta, states, trackers, sysTracker, pollTimer,
                   allCompleteEmitted, tasks, events, sends, budget, history, obs,
                   fresh, call, plan, spawns, readyCall, rebases, outcomes, summaryDue,
                   store, planning>>

\* check(sessionId): `await sessionManager.get` resolves and checkSession runs up to
\* its first await
DirectCheck(s) ==
    /\ budget >= CheckCost
    /\ budget' = budget - CheckCost
    /\ tasks[s]["direct"].pc = "idle"
    /\ tasks' = [tasks EXCEPT ![s]["direct"] = StartTask(s, SessionManagerGet(s))]
    /\ UNCHANGED <<env, now, meta, states, trackers, sysTracker, pollTimer, polling,
                   allCompleteEmitted, inflight, pollPc, snap, events, notifications,
                   sends, history, obs, fresh, call, plan, spawns, readyCall, rebases,
                   outcomes, summaryDue, store, planning>>

(***************************************************************************)
(* Specifications.  Spec: the manager with its timer, direct checks and    *)
(* failing plugin calls.  SpecPoll: the manager driven by its timer alone, *)
(* with plugin calls that succeed.                                         *)
(***************************************************************************)
TaskStep(s, sl) ==
    \/ Classify(s, sl)
    \/ RxRestore(s, sl)
    \/ RxEscNotify(s, sl)
    \/ RxNotify(s, sl)
    \/ NotifyDirect(s, sl)
    \/ RxDedup(s, sl)
    \/ RxSendOk(s, sl)
    \/ RxRecord(s, sl)

PollStep == PollList \/ PollSettle \/ SysRestore \/ SysNotify

Next ==
    \/ \E s \in Sessions : EnvChange(s)
    \/ Advance
    \/ Start
    \/ Stop
    \/ Tick
    \/ PollStep
    \/ PollListFails
    \/ \E s \in Sessions : DirectCheck(s)
    \/ \E s \in Sessions, sl \in Slots : TaskStep(s, sl)
    \/ \E s \in Sessions, sl \in Slots : RxSendFail(s, sl)

Spec == Init /\ [][Next]_vars

NextPoll ==
    \/ \E s \in Sessions : EnvChange(s)
    \/ Advance
    \/ Start
    \/ Tick
    \/ PollStep
    \/ \E s \in Sessions : TaskStep(s, "poll")

SpecPoll == Init /\ [][NextPoll]_vars

(***************************************************************************)
(* Properties.                                                             *)
(***************************************************************************)
SessionEvents(s, types) == SelectSeq(events, LAMBDA e : e.sid = s /\ e.type \in types)

SessionHistory(s) == SelectSeq(history, LAMBDA h : h.sid = s)

PollIdle == pollPc = "idle"

NoDirectCheck == \A s \in Sessions : tasks[s]["direct"].pc = "idle"

\* the events a status transition is recorded as
StatusEventTypes ==
    {"session.working", "pr.created", "pr.updated", "ci.failing", "review.pending",
     "review.changes_requested", "review.approved", "merge.ready", "merge.completed",
     "session.needs_input", "session.stuck", "session.errored", "session.killed"}

TransitionTypesLogged(s) ==
    LET logged == SessionEvents(s, StatusEventTypes)
    IN  [i \in 1..Len(logged) |-> logged[i].type]

TransitionTypesHandled(s) ==
    LET handled == SelectSeq(SessionHistory(s),
                             LAMBDA h : statusToEventType(h.from, h.to) # NULL)
    IN  [i \in 1..Len(handled) |-> statusToEventType(handled[i].from, handled[i].to)]

\* C1: every transition A -> B the manager handles with a non-null
\* statusToEventType(A, B) is in the event store exactly once as an event of that
\* type for the session, in the order the transitions were handled: the
\* transition-typed events of a session are the handled transitions, one for one.
C1_OneEventPerTransition ==
    \A s \in Sessions : TransitionTypesLogged(s) = TransitionTypesHandled(s)

\* C2: checkSession never runs for one session in two places at once (a direct
\* check(id) is never in flight together with the poll cycle's call for the same
\* session), and so no transition is handled twice in a row.
C2_OneCheckPerSession ==
    \A s \in Sessions :
        /\ ~(tasks[s]["poll"].pc # "idle" /\ tasks[s]["direct"].pc # "idle")
        /\ \A i \in 1..(Len(SessionHistory(s)) - 1) :
              SessionHistory(s)[i] # SessionHistory(s)[i + 1]

\* C3: at most one pollAll is in flight; the guard is set exactly while a cycle
\* runs (a tick during a cycle starts nothing, the end of a cycle releases it), and
\* the cycle's checkSession calls run only between list() and the end of the cycle.
C3_SinglePollCycle ==
    /\ inflight <= 1
    /\ polling <=> inflight = 1
    /\ polling <=> ~PollIdle
    /\ \A s \in Sessions : tasks[s]["poll"].pc # "idle" => pollPc = "checking"

\* C3, its case: the timer is live, a second consecutive cycle runs (so the guard was
\* released by the first) and its checkSession call is in flight.
C3_SecondCycleRunning ==
    /\ pollTimer
    /\ polling
    /\ \E s \in Sessions : Len(obs[s]) >= 1 /\ tasks[s]["poll"].pc = "classify"

\* C4 as stated: once stop() has returned (and no direct check is running), no step
\* appends an event.
C4_NoEventAfterStop ==
    [][(~pollTimer /\ ~pollTimer' /\ NoDirectCheck) => events' = events]_vars

\* C4 amended: while the manager is stopped no poll cycle starts; the cycle that was
\* in flight when stop() returned may finish, and once it has (and no direct check
\* is running) no event is appended.
C4_StoppedManagerQuiesces ==
    [][(~pollTimer /\ ~pollTimer') =>
          /\ inflight' <= inflight
          /\ (PollIdle /\ NoDirectCheck) => events' = events]_vars

\* C4, its case: stop() has returned while a cycle is in flight whose reaction has
\* sent its message and will still record ci.fix_sent.
C4_StoppedWhileCycleRuns ==
    /\ ~pollTimer
    /\ polling
    /\ \E s \in Sessions : tasks[s]["poll"].pc = "rx_record" /\ tasks[s]["poll"].key = "ci-failed"

EscalatedCount(log, s, k) ==
    Len(SelectSeq(log, LAMBDA e : e.type = "reaction.escalated" /\ e.sid = s /\ e.key = k))

\* the step in which the executeReaction call of (s, sl) passes tracker.attempts++
RxStarted(s, sl) ==
    /\ tasks[s][sl].pc \in {"classify", "rx_restore"}
    /\ tasks'[s][sl].pc \in {"rx_esc_notify", "rx_dedup", "rx_notify"}

\* the counter the call increments: the tracker of the map, else the persisted one
CountBefore(s, sl, k) ==
    IF tasks[s][sl].pc = "rx_restore" THEN meta[s].att[k] ELSE trackers[s][k].attempts

Millis(text) ==
    text[1] * (IF text[2] = "s" THEN 1000 ELSE IF text[2] = "m" THEN 60000 ELSE 3600000)

\* the escalation rule as stated: retries exceeded, or escalateAfter set and that
\* much time (a number: milliseconds) passed since firstTriggered
StatedDue(k, attempts, first) ==
    LET cfg == Reactions[k]
    IN  \/ cfg.retries # NoRetries /\ attempts > cfg.retries
        \/ cfg.escalateAfter.kind = "string"
           /\ now - first > Millis(cfg.escalateAfter.text)
        \/ cfg.escalateAfter.kind = "number" /\ now - first > cfg.escalateAfter.n

\* the rule with a numeric escalateAfter taken as a number of attempts
AmendedDue(k, attempts, first) ==
    LET cfg == Reactions[k]
    IN  \/ cfg.retries # NoRetries /\ attempts > cfg.retries
        \/ cfg.escalateAfter.kind = "string"
           /\ now - first > Millis(cfg.escalateAfter.text)
        \/ cfg.escalateAfter.kind = "number" /\ attempts > cfg.escalateAfter.n

\* what a call does when it passes the increment, given the rule's verdict
RxStartedAsRuled(s, sl, due) ==
    LET k == tasks'[s][sl].key
        a == trackers'[s][k].attempts
    IN  /\ a = CountBefore(s, sl, k) + 1
        /\ sends' = sends
        /\ IF due
           THEN /\ tasks'[s][sl].pc = "rx_esc_notify"
                /\ EscalatedCount(events', s, k) = EscalatedCount(events, s, k) + 1
                /\ events'[Len(events')] =
                      createEvent("reaction.escalated", s, a, k, FALSE, NULL, NULL)
           ELSE /\ tasks'[s][sl].pc # "rx_esc_notify"
                /\ EscalatedCount(events', s, k) = EscalatedCount(events, s, k)

\* an escalating call ends with the notification, at the configured priority or urgent
RxEscalationEnds(s, sl) ==
    LET cfg == Reactions[tasks[s][sl].key]
    IN  (tasks[s][sl].pc = "rx_esc_notify" /\ tasks'[s][sl].pc # "rx_esc_notify") =>
            /\ tasks'[s][sl].pc = "idle"
            /\ sends' = sends
            /\ events' = events
            /\ notifications' = Append(notifications,
                  [type |-> "reaction.escalated", sid |-> s,
                   priority |-> IF cfg.priority = NULL THEN "urgent" ELSE cfg.priority])

EnteredCiFailedOnce(s) ==
    /\ fresh[s]
    /\ Len(SessionHistory(s)) = 1
    /\ SessionHistory(s)[1].to = "ci_failed"

ReactionTrail(s) ==
    LET trail == SessionEvents(s, {"ci.fix_sent", "reaction.triggered", "reaction.escalated"})
    IN  [i \in 1..Len(trail) |->
            [type |-> trail[i].type, att |-> trail[i].att, skipped |-> trail[i].skipped]]

FixSent(n) == [type |-> "ci.fix_sent", att |-> n, skipped |-> FALSE]

SkippedSend == [type |-> "reaction.triggered", att |-> 0, skipped |-> TRUE]

Escalated(n) == [type |-> "reaction.escalated", att |-> n, skipped |-> FALSE]

UrgentEscalation(s) ==
    \E i \in DOMAIN notifications :
        notifications[i] = [type |-> "reaction.escalated", sid |-> s, priority |-> "urgent"]

\* C6: ci-failed is send-to-agent with retries 2; after three consecutive poll cycles
\* that observed the session in ci_failed (within the 30 minutes, agent not aware),
\* the session's events are ci.fix_sent{1}, ci.fix_sent{2}, reaction.escalated
\* {ci-failed, 3}, and the notifier was called at urgent.
C6_ThreeCyclesEscalate ==
    \A s \in Sessions :
        (/\ EnteredCiFailedOnce(s)
         /\ obs[s] = <<FALSE, FALSE, FALSE>> /\ sends[s] = 1
         /\ PollIdle /\ now = 0)
        => /\ ReactionTrail(s) = <<FixSent(1), FixSent(2), Escalated(3)>>
           /\ UrgentEscalation(s)

\* C7: a send skipped by the dedup check counts as an attempt and is recorded as
\* reaction.triggered{skipped}, so skipped sends reach escalation as real sends do:
\* after three consecutive cycles that observed ci_failed with the agent aware, the
\* trail is two skipped sends and the escalation at attempt 3.
C7_SkippedSendsEscalate ==
    \A s \in Sessions :
        (/\ EnteredCiFailedOnce(s)
         /\ obs[s] = <<TRUE, TRUE, TRUE>> /\ sends[s] = 0
         /\ PollIdle /\ now = 0)
        => ReactionTrail(s) = <<SkippedSend, SkippedSend, Escalated(3)>>

\* C8: retries 2; cycle 1 sends (attempt 1), cycles 2 and 3 see "fixing ci" in the
\* output and skip the send with a reaction.triggered{skipped} event each, and cycle 4
\* records the escalation.
C8_SkipsThenEscalation ==
    \A s \in Sessions :
        (/\ EnteredCiFailedOnce(s)
         /\ Len(obs[s]) = 4 /\ SubSeq(obs[s], 1, 3) = <<FALSE, TRUE, TRUE>>
         /\ sends[s] = 1
         /\ PollIdle /\ now = 0)
        => /\ Len(ReactionTrail(s)) = 4
           /\ SubSeq(ReactionTrail(s), 1, 3) = <<FixSent(1), SkippedSend, SkippedSend>>
           /\ ReactionTrail(s)[4].type = "reaction.escalated"

\* C9: leaving a status clears the tracker of its reaction, so the reaction that runs
\* when a session enters a status (a call runs for a transition, so it is the first
\* after the entry) counts attempt 1, whatever was attempted during earlier stays.
C9_EntryStartsAtAttemptOne ==
    \A s \in Sessions :
        LET t == tasks[s]["poll"]
        IN  (fresh[s] /\ t.pc \in {"rx_esc_notify", "rx_dedup", "rx_send", "rx_record"})
            => TrackerOf(s, t).attempts = 1

CiOutcomeTypes == {"ci.passing", "ci.fix_failed"}

StatedResolved ==
    {"pr_open", "review_pending", "changes_requested", "approved", "mergeable", "merged"}

CiOutcomesLogged(s) ==
    LET logged == SessionEvents(s, CiOutcomeTypes)
    IN  [i \in 1..Len(logged) |-> [type |-> logged[i].type, att |-> logged[i].att]]

CiOutcomesStated(s) ==
    LET left == SelectSeq(SessionHistory(s), LAMBDA h : h.from = "ci_failed")
    IN  [i \in 1..Len(left) |->
            [type |-> IF left[i].to \in StatedResolved THEN "ci.passing" ELSE "ci.fix_failed",
             att |-> left[i].att]]

\* C10: every transition out of ci_failed is recorded by one event with the attempt
\* count the ci-failed tracker had before it was cleared: ci.passing if the new
\* status is pr_open, review_pending, changes_requested, approved, mergeable or
\* merged, ci.fix_failed otherwise.
C10_CiOutcomePerTransition ==
    \A s \in Sessions : CiOutcomesLogged(s) = CiOutcomesStated(s)

(***************************************************************************)
(* Functions on their own.  SpecFunctions draws the arguments of one call  *)
(* of determineStatus or of checkPlanCompletion and lets the call return.  *)
(***************************************************************************)
Tasks == {"A", "B", "C"}

\* a task without a session blocks the completion
checkPlanCompletionAllTasks(pl, statusOf) ==
    /\ pl.status = "executing"
    /\ \A t \in DOMAIN pl.sessionId :
          pl.sessionId[t] # NULL /\ statusOf[t] \in TERMINAL_STATUSES

\* checkPlanCompletion(projectId, planId): pl is the plan file (status NULL: no such
\* plan), statusOf the status sessionManager.get finds for a task's sessionId (NULL:
\* no such session)
checkPlanCompletion(pl, statusOf) ==
    IF pl.status = NULL THEN FALSE
    ELSE IF pl.status # "executing" THEN FALSE
    ELSE LET tasksWithSessions == {t \in DOMAIN pl.sessionId : pl.sessionId[t] # NULL}
         IN  IF tasksWithSessions = {} THEN FALSE
             ELSE \A t \in tasksWithSessions :
                     statusOf[t] = NULL \/ statusOf[t] \in TERMINAL_STATUSES

ProbeAnswers ==
    [alive : {"yes", "no", "throw"}, output : {"empty", "text", "throw"}, phrases : {{}},
     activity : {"active", "waiting_input"}, process : {"yes", "no", "throw"},
     actState : {"active"}, detect : {"pr", "none", "throw"},
     prState : {"open", "merged", "closed", "throw"}, ci : {"passing", "failing", "throw"},
     review : {"approved", "changes_requested", "pending", "none", "throw"},
     mergeable : {"yes", "no", "throw"}, failing : {0}, scm : {TRUE}]

\* the answers for a project without SCM: no SCM call can be made
NoScmAnswers ==
    {[BaseProbe EXCEPT !.scm = FALSE, !.alive = a, !.output = o, !.activity = c,
                       !.process = q] :
        a \in {"yes", "no", "throw"}, o \in {"empty", "text", "throw"},
        c \in {"active", "waiting_input"}, q \in {"yes", "no", "throw"}}

SessionArgs ==
    [status : {"spawning", "working", "pr_open", "ci_failed", "stuck", "needs_input",
               "merged", "killed"},
     pr : BOOLEAN]

DetermineStatusCalls ==
    [fn : {"determineStatus"}, sess : SessionArgs, probe : ProbeAnswers \cup NoScmAnswers,
     returned : {FALSE}, result : {NULL}]

FoundStatus == {NULL, "spawning", "working", "merged", "killed", "done"}

CheckPlanCompletionCalls ==
    [fn : {"checkPlanCompletion"},
     pl : [status : {"approved", "executing"}, sessionId : [Tasks -> {NULL, "id"}]],
     statusOf : [Tasks -> FoundStatus],
     returned : {FALSE}, result : {NULL}]

InitFunctions ==
    /\ env = [s \in Sessions |-> "working"]
    /\ meta = [s \in Sessions |-> FreshMeta]
    /\ fresh = [s \in Sessions |-> TRUE]
    /\ ManagerCreated(Sessions)
    /\ PlanAbsent
    /\ StoreAbsent
    /\ call \in DetermineStatusCalls \cup CheckPlanCompletionCalls

ManagerVars ==
    <<env, now, meta, states, trackers, sysTracker, pollTimer, polling,
      allCompleteEmitted, inflight, pollPc, snap, tasks, events, notifications, sends,
      budget, history, obs, fresh, outcomes, summaryDue>>

PlanVars == <<plan, spawns, readyCall, rebases>>

DetermineStatusReturns ==
    /\ call.fn = "determineStatus"
    /\ ~call.returned
    /\ call' = [call EXCEPT !.returned = TRUE,
                            !.result = determineStatus(call.sess, call.probe)]
    /\ UNCHANGED <<env, now, meta, states, trackers, sysTracker, pollTimer, polling,
                   allCompleteEmitted, inflight, pollPc, snap, tasks, events,
                   notifications, sends, budget, history, obs, fresh, plan, spawns,
                   readyCall, rebases, outcomes, summaryDue, store, planning>>

CheckPlanCompletionReturns ==
    /\ call.fn = "checkPlanCompletion"
    /\ ~call.returned
    /\ call' = [call EXCEPT !.returned = TRUE,
                            !.result = checkPlanCompletion(call.pl, call.statusOf)]
    /\ UNCHANGED <<env, now, meta, states, trackers, sysTracker, pollTimer, polling,
                   allCompleteEmitted, inflight, pollPc, snap, tasks, events,
                   notifications, sends, budget, history, obs, fresh, plan, spawns,
                   readyCall, rebases, outcomes, summaryDue, store, planning>>

NextFunctions == DetermineStatusReturns \/ CheckPlanCompletionReturns

SpecFunctions == InitFunctions /\ [][NextFunctions]_vars

Returned(fn) == call.fn = fn /\ call.returned

\* C11: whenever isAlive answers false, determineStatus returns killed and has
\* invoked no other probe (no terminal output, agent process, detectPR, PR state, CI
\* or review call; no PR is written to the metadata), whatever they would answer.
C11_DeadRuntimeIsKilled ==
    (Returned("determineStatus") /\ call.probe.alive = "no")
    => /\ call.result.status = "killed"
       /\ call.result.invoked = <<"isAlive">>
       /\ ~call.result.prWritten

\* C11, its case: the runtime is dead while the session's PR is merged.
C11_DeadRuntimeMergedPr ==
    /\ Returned("determineStatus")
    /\ call.probe.alive = "no"
    /\ call.sess.pr
    /\ call.probe.prState = "merged"

\* the status the stated order of the PR checks gives
StatedPrOrder(p) ==
    IF p.prState = "merged" THEN "merged"
    ELSE IF p.prState = "closed" THEN "killed"
    ELSE IF p.ci = "failing" THEN "ci_failed"
    ELSE IF p.review = "changes_requested" THEN "changes_requested"
    ELSE IF p.review = "approved" /\ p.mergeable = "yes" THEN "mergeable"
    ELSE IF p.review = "approved" THEN "approved"
    ELSE IF p.review = "pending" THEN "review_pending"
    ELSE "pr_open"

AllProbesSucceed(p) ==
    /\ p.alive # "throw" /\ p.output # "throw" /\ p.process # "throw"
    /\ p.detect # "throw" /\ p.prState # "throw" /\ p.ci # "throw"
    /\ p.review # "throw" /\ p.mergeable # "throw"

\* the activity probe succeeds and decides nothing: no terminal output, or the agent
\* is not waiting for input and its process runs
ActivityUndecided(p) ==
    \/ p.output = "empty"
    \/ (p.output = "text" /\ p.activity # "waiting_input" /\ p.process = "yes")

HasPr(c) == c.probe.scm /\ (c.sess.pr \/ c.probe.detect = "pr")

\* C12 as stated: for a session whose runtime is alive, with a PR and probes that all
\* succeed, determineStatus returns the first match of merged, closed -> killed, CI
\* failing, changes requested, approved and mergeable, approved, review pending,
\* else pr_open; a merged PR wins over everything.
C12_PrOrderForLiveSession ==
    (/\ Returned("determineStatus")
     /\ call.probe.alive = "yes" /\ AllProbesSucceed(call.probe) /\ HasPr(call))
    => call.result.status = StatedPrOrder(call.probe)

\* C12 amended: the stated order holds for a session whose runtime is alive and whose
\* activity probe decides nothing; a session whose agent waits for input is
\* needs_input and one whose agent process is gone is killed, whatever the PR is.
C12_PrOrderAfterActivityProbe ==
    (/\ Returned("determineStatus")
     /\ call.probe.alive = "yes" /\ AllProbesSucceed(call.probe) /\ HasPr(call))
    => call.result.status =
          IF ActivityUndecided(call.probe) THEN StatedPrOrder(call.probe)
          ELSE IF call.probe.activity = "waiting_input" THEN "needs_input"
          ELSE "killed"

\* C12, its case: CI is failing on an approved, mergeable PR.
C12_FailingCiOnApprovedPr ==
    /\ Returned("determineStatus")
    /\ call.probe.alive = "yes" /\ AllProbesSucceed(call.probe) /\ call.sess.pr
    /\ ActivityUndecided(call.probe)
    /\ call.probe.prState = "open" /\ call.probe.ci = "failing"
    /\ call.probe.review = "approved" /\ call.probe.mergeable = "yes"
    /\ call.result.status = "ci_failed"

\* C13 as stated: for a session whose runtime is alive, with no PR in its metadata
\* and a detectPR that returns a PR, one call persists pr and yields the status the
\* PR state dictates.
C13_DetectedPrAdvancesStatus ==
    (/\ Returned("determineStatus")
     /\ call.probe.alive = "yes" /\ ~call.sess.pr /\ call.probe.detect = "pr")
    => /\ call.result.prWritten
       /\ call.result.status = StatedPrOrder(call.probe)

\* C13 amended: as stated, for a session whose activity probe decides nothing and
\* whose PR probes succeed; otherwise detectPR is not reached (agent waiting for
\* input or gone), or the PR is persisted and the status stays what it was.
C13_DetectedPrAdvancesAfterActivityProbe ==
    (/\ Returned("determineStatus")
     /\ call.probe.alive = "yes" /\ ~call.sess.pr /\ call.probe.detect = "pr"
     /\ AllProbesSucceed(call.probe))
    => IF ActivityUndecided(call.probe)
       THEN /\ call.result.prWritten
            /\ call.result.pr
            /\ call.result.status = StatedPrOrder(call.probe)
       ELSE /\ ~call.result.prWritten
            /\ "detectPR" \notin {call.result.invoked[i] : i \in DOMAIN call.result.invoked}

\* C13, its case: a working session without PR whose detected PR is merged.
C13_DetectedPrIsMerged ==
    /\ Returned("determineStatus")
    /\ call.probe.alive = "yes" /\ ~call.sess.pr /\ call.probe.detect = "pr"
    /\ AllProbesSucceed(call.probe) /\ ActivityUndecided(call.probe)
    /\ call.sess.status = "working"
    /\ call.probe.prState = "merged"
    /\ call.result = [status |-> "merged", pr |-> TRUE, prWritten |-> TRUE,
                       invoked |-> call.result.invoked]

TasksWithSession(c) ==
    {t \in Tasks : c.pl.sessionId[t] # NULL /\ c.statusOf[t] # NULL}

\* C17 as stated: for an executing plan checkPlanCompletion returns true when every
\* task that has a session has it in a terminal status (merged, killed, done) and
\* false when the session of some task is in a non-terminal status; tasks without a
\* session are not looked at.
C17_CompleteWhenSessionsTerminal ==
    (Returned("checkPlanCompletion") /\ call.pl.status = "executing")
    => (call.result <=>
          \A t \in TasksWithSession(call) : call.statusOf[t] \in TERMINAL_STATUSES)

\* C17 amended: as stated, but a plan none of whose tasks has a sessionId is not
\* complete.
C17_CompleteWhenSomeSessionAndAllTerminal ==
    (Returned("checkPlanCompletion") /\ call.pl.status = "executing")
    => (call.result <=>
          /\ \E t \in Tasks : call.pl.sessionId[t] # NULL
          /\ \A t \in TasksWithSession(call) : call.statusOf[t] \in TERMINAL_STATUSES)

\* C17, its case: A is merged, B was killed, C never got a session.
C17_TwoTerminalOneUnspawned ==
    /\ Returned("checkPlanCompletion")
    /\ call.pl.status = "executing"
    /\ call.pl.sessionId = [t \in Tasks |-> IF t = "C" THEN NULL ELSE "id"]
    /\ call.statusOf["A"] = "merged" /\ call.statusOf["B"] = "killed"
    /\ call.result = TRUE

(***************************************************************************)
(* Plans.  SpecPlan: a plan of three tasks is approved and executed; the   *)
(* manager is created with the plan service and the outcome service, the   *)
(* reaction plan-complete is configured as notify.  The session of a task  *)
(* has the task's name as its id.  The sessions of the plan run through    *)
(* spawning, working, merged and killed, for which config.reactions holds  *)
(* no reaction.  A second session spawned for one task is counted, its     *)
(* own life is not followed.                                               *)
(***************************************************************************)
FanIn == [t \in Tasks |-> IF t = "C" THEN {"A", "B"} ELSE {}]

Chain == [t \in Tasks |-> CASE t = "A" -> {} [] t = "B" -> {"A"} [] t = "C" -> {"B"}]

\* A and C start together, B waits for A
Pair == [t \in Tasks |-> IF t = "B" THEN {"A"} ELSE {}]

PlanShapes == {FanIn, Chain, Pair}

\* plan.tasks is an array: the loops go through the tasks in this order
Rank(t) == CASE t = "A" -> 1 [] t = "B" -> 2 [] t = "C" -> 3

First(S) == CHOOSE t \in S : \A u \in S : Rank(t) <= Rank(u)

\* the metadata spawn writes (status=spawning), with the planId added after it
PlanSessionMeta ==
    [status |-> "spawning", pr |-> FALSE, att |-> [k \in Keys |-> 0],
     first |-> [k \in Keys |-> -1], planId |-> TRUE]

NoMeta == [PlanSessionMeta EXCEPT !.status = NULL]

NoSpawn == [count |-> 0, failed |-> 0, depsMerged |-> TRUE]

\* the locals of a spawnReadyTasks call: the plan as read (its tasks' sessionIds),
\* taskSessionMap, the waiting tasks still to go through, changed
NoReadyCall ==
    [sessionId |-> [t \in Tasks |-> NULL], taskSessionMap |-> [t \in Tasks |-> NULL],
     waiting |-> {}, changed |-> FALSE]

NoRebase ==
    [active |-> {}, listed |-> "no", targets |-> {}, todo |-> {},
     tried |-> [t \in Tasks |-> 0]]

PlanCompleteReaction ==
    [action |-> "notify", message |-> FALSE, retries |-> NoRetries,
     escalateAfter |-> NoEscalateAfter, priority |-> NULL, auto |-> TRUE]

InitPlan ==
    /\ \E shape \in PlanShapes :
          plan = [status |-> "ready", deps |-> shape, sessionId |-> [t \in Tasks |-> NULL]]
    /\ env = [t \in Tasks |-> "none"]
    /\ meta = [t \in Tasks |-> NoMeta]
    /\ fresh = [t \in Tasks |-> TRUE]
    /\ ManagerCreated(Tasks)
    /\ call = NoCall
    /\ spawns = [t \in Tasks |-> NoSpawn]
    /\ readyCall = [t \in Tasks |-> NoReadyCall]
    /\ rebases = [t \in Tasks |-> NoRebase]
    /\ StoreAbsent
    /\ planning = NoPlanning

\* only a plan that is still being planned is turned away
NotReadyWhilePlanning(pl) == pl.status = "planning"

\* if (plan.status !== "ready") throw
NotReady(pl) == pl.status # "ready"

\* approvePlan: with a tracker an issue is created for each task, each createIssue
\* succeeding or failing; the plan goes to executing and the tasks without
\* dependencies are spawned, each spawn succeeding or failing
ApprovePlan ==
    LET roots == {t \in Tasks : plan.deps[t] = {}}
    IN  /\ ~NotReady(plan)
        /\ call' = [fn |-> "approvePlan", error |-> FALSE]
        /\ IF planning.tracker
           THEN \E created \in SUBSET Tasks : planning' = [planning EXCEPT !.issues = created]
           ELSE planning' = planning
        /\ \E ok \in SUBSET roots :
              /\ plan' = [plan EXCEPT !.status = "executing",
                                      !.sessionId = [t \in Tasks |->
                                                        IF t \in ok THEN t ELSE NULL]]
              /\ meta' = [t \in Tasks |-> IF t \in ok THEN PlanSessionMeta ELSE meta[t]]
              /\ env' = [t \in Tasks |-> IF t \in ok THEN "working" ELSE env[t]]
              /\ spawns' = [t \in Tasks |->
                              IF t \in ok THEN [spawns[t] EXCEPT !.count = 1]
                              ELSE IF t \in roots THEN [spawns[t] EXCEPT !.failed = 1]
                              ELSE spawns[t]]
        /\ UNCHANGED <<now, states, trackers, sysTracker, pollTimer, polling,
                       allCompleteEmitted, inflight, pollPc, snap, tasks, events,
                       notifications, sends, budget, history, obs, fresh, readyCall,
                       rebases, outcomes, summaryDue, store>>

\* the PR of a working session is merged, its runtime dies, or its agent exits
PlanEnvChange(t) ==
    /\ env[t] = "working"
    /\ \E e \in {"merged", "dead", "exited"} : env' = [env EXCEPT ![t] = e]
    /\ UNCHANGED <<now, meta, states, trackers, sysTracker, pollTimer, polling,
                   allCompleteEmitted, inflight, pollPc, snap, tasks, events,
                   notifications, sends, budget, history, obs, fresh, call, plan,
                   spawns, readyCall, rebases, outcomes, summaryDue, store, planning>>

\* Session.activity of a listed session
SessionActivity(s) ==
    IF Probe(env[s]).alive = "no" \/ Probe(env[s]).process = "no" THEN "exited"
    ELSE "active"

ListAll == [x \in Existing |-> SessionManagerList(x)]

mapStatusToOutcome(status) ==
    CASE status = "merged" -> "merged"
      [] status = "stuck" -> "stuck"
      [] status = "errored" -> "errored"
      [] OTHER -> "killed"

\* the record captureOutcome(session) appends; `to` is the status the handler reached
Outcome(s, t) == [sid |-> s, outcome |-> mapStatusToOutcome(t.sess.status), to |-> t.new]

\* spawnReadyTasks up to its first await: the plan is read, the waiting tasks found
SpawnReadyCall ==
    IF plan.status # "executing" THEN NoReadyCall
    ELSE [sessionId |-> plan.sessionId, taskSessionMap |-> plan.sessionId,
          waiting |-> {t \in Tasks : plan.deps[t] # {} /\ plan.sessionId[t] = NULL},
          changed |-> FALSE]

\* where checkSession goes on after the event and the notification of a transition
PlanTailPc(s, new) ==
    IF new = "merged" /\ SessionMetadata(s).planId
    THEN (IF SpawnReadyCall.waiting # {} THEN "spawn_task" ELSE "rebase_list")
    ELSE IF new \in TERMINAL_STATUSES /\ SessionMetadata(s).planId THEN "plan_check"
    ELSE "idle"

PlanTail(s, t) ==
    /\ tasks' = [tasks EXCEPT ![s]["poll"] = Continue(t, PlanTailPc(s, t.new))]
    /\ readyCall' = IF t.new = "merged" /\ SessionMetadata(s).planId
                    THEN [readyCall EXCEPT ![s] = SpawnReadyCall]
                    ELSE readyCall
    /\ outcomes' = IF PlanTailPc(s, t.new) = "idle" /\ t.new \in TERMINAL_STATUSES
                   THEN Append(outcomes, Outcome(s, t))
                   ELSE outcomes

\* the end of checkSession's transition branch: captureOutcome
PlanFinish(s, t) ==
    /\ tasks' = [tasks EXCEPT ![s]["poll"] = IdleTask]
    /\ outcomes' = IF t.new \in TERMINAL_STATUSES THEN Append(outcomes, Outcome(s, t))
                   ELSE outcomes

\* checkSession of a plan session, from the return of determineStatus to its first await
PlanClassify(s) ==
    LET t == tasks[s]["poll"]
        r == determineStatus(t.sess, Probe(env[s]))
        new == r.status
        old == t.old
        meta1 == IF r.prWritten THEN [meta EXCEPT ![s].pr = TRUE] ELSE meta
        evType == statusToEventType(old, new)
        key == IF evType # NULL THEN eventToReactionKey(evType) ELSE NULL
        t1 == [t EXCEPT !.new = new]
    IN  /\ t.pc = "classify"
        /\ ~(key # NULL /\ ReactionRuns(key))
        /\ states' = [states EXCEPT ![s] = new]
        /\ IF new = old
           THEN /\ meta' = meta1
                /\ tasks' = [tasks EXCEPT ![s]["poll"] = IdleTask]
                /\ UNCHANGED <<allCompleteEmitted, history, events, rebases, readyCall,
                               outcomes>>
           ELSE /\ meta' = [meta1 EXCEPT ![s].status = new]
                /\ allCompleteEmitted' =
                      IF new # "merged" /\ new # "killed" THEN FALSE ELSE allCompleteEmitted
                /\ history' = Append(history, [sid |-> s, from |-> old, to |-> new, att |-> 0])
                /\ events' = IF evType # NULL
                             THEN Append(events, createEvent(evType, s, 0, NULL, FALSE, old, new))
                             ELSE events
                /\ rebases' = [rebases EXCEPT ![s].active =
                                  IF new = "merged"
                                  THEN {x \in Existing \ {s} :
                                           meta[x].status \notin TERMINAL_STATUSES}
                                  ELSE @]
                /\ IF evType # NULL /\ inferPriority(evType) # "info"
                   THEN /\ tasks' = [tasks EXCEPT ![s]["poll"] = [t1 EXCEPT !.pc = "plan_notify"]]
                        /\ UNCHANGED <<readyCall, outcomes>>
                   ELSE PlanTail(s, t1)
        /\ UNCHANGED <<env, now, trackers, sysTracker, pollTimer, polling, inflight,
                       pollPc, snap, notifications, sends, budget, obs, fresh, call,
                       plan, spawns, summaryDue, store, planning>>

\* await notifyHuman(event, priority) resolves
PlanNotify(s) ==
    LET t == tasks[s]["poll"]
        evType == statusToEventType(t.old, t.new)
    IN  /\ t.pc = "plan_notify"
        /\ notifications' = Append(notifications,
              Notification(evType, s, inferPriority(evType)))
        /\ PlanTail(s, t)
        /\ UNCHANGED <<env, now, meta, states, trackers, sysTracker, pollTimer, polling,
                       allCompleteEmitted, inflight, pollPc, snap, events, sends,
                       budget, history, obs, fresh, call, plan, spawns, rebases,
                       summaryDue, store, planning>>

\* only one merged dependency is asked for
someDepMerged(copy, w) ==
    \E d \in plan.deps[w] :
        copy.taskSessionMap[d] # NULL /\ SessionManagerGet(d).status = "merged"

\* spawnReadyTasks: every dependency of the waiting task w has a session, by the map
\* built from the plan as the call read it, and sessionManager.get finds that session merged
allDepsMerged(copy, w) ==
    \A d \in plan.deps[w] :
        copy.taskSessionMap[d] # NULL /\ SessionManagerGet(d).status = "merged"

\* spawnReadyTasks has dealt with the waiting task w: the loop goes on, or the plan is
\* written if a task was spawned and the call returns to checkSession, which awaits
\* sessionManager.list
SpawnLoop(s, copy) ==
    /\ readyCall' = [readyCall EXCEPT ![s] = copy]
    /\ plan' = IF copy.waiting = {} /\ copy.changed
               THEN [plan EXCEPT !.sessionId = copy.sessionId]
               ELSE plan
    /\ tasks' = [tasks EXCEPT ![s]["poll"].pc =
                    IF copy.waiting = {} THEN "rebase_list" ELSE "spawn_task"]

SpawnTaskSkip(s) ==
    LET copy == readyCall[s]
        w == First(copy.waiting)
    IN  /\ tasks[s]["poll"].pc = "spawn_task"
        /\ ~allDepsMerged(copy, w)
        /\ SpawnLoop(s, [copy EXCEPT !.waiting = @ \ {w}])
        /\ UNCHANGED <<env, now, meta, states, trackers, sysTracker, pollTimer, polling,
                       allCompleteEmitted, inflight, pollPc, snap, events,
                       notifications, sends, budget, history, obs, fresh, call, spawns,
                       rebases, outcomes, summaryDue, store, planning>>

\* the dependencies are merged: gatherSiblingContext lists the sessions, then
\* sessionManager.spawn resolves
SpawnTaskOk(s) ==
    LET copy == readyCall[s]
        w == First(copy.waiting)
        marked == MarkedKilled(ListAll)
    IN  /\ tasks[s]["poll"].pc = "spawn_task"
        /\ allDepsMerged(copy, w)
        /\ spawns' = [spawns EXCEPT
                          ![w].count = @ + 1,
                          ![w].depsMerged =
                              @ /\ \A d \in plan.deps[w] : meta[d].status = "merged"]
        /\ meta' = IF meta[w].status = NULL THEN [marked EXCEPT ![w] = PlanSessionMeta]
                   ELSE marked
        /\ env' = IF env[w] = "none" THEN [env EXCEPT ![w] = "working"] ELSE env
        /\ SpawnLoop(s, [copy EXCEPT !.waiting = @ \ {w}, !.sessionId[w] = w,
                                     !.changed = TRUE])
        /\ UNCHANGED <<now, states, trackers, sysTracker, pollTimer, polling,
                       allCompleteEmitted, inflight, pollPc, snap, events,
                       notifications, sends, budget, history, obs, fresh, call, rebases,
                       outcomes, summaryDue, store, planning>>

\* sessionManager.spawn rejects: the task is left for later
SpawnTaskFail(s) ==
    LET copy == readyCall[s]
        w == First(copy.waiting)
    IN  /\ tasks[s]["poll"].pc = "spawn_task"
        /\ allDepsMerged(copy, w)
        /\ spawns' = [spawns EXCEPT ![w].failed = @ + 1]
        /\ meta' = MarkedKilled(ListAll)
        /\ SpawnLoop(s, [copy EXCEPT !.waiting = @ \ {w}])
        /\ UNCHANGED <<env, now, states, trackers, sysTracker, pollTimer, polling,
                       allCompleteEmitted, inflight, pollPc, snap, events,
                       notifications, sends, budget, history, obs, fresh, call, rebases,
                       outcomes, summaryDue, store, planning>>

\* the siblings a rebase message goes to: same plan, not exited, not terminal
Siblings(s, listed) ==
    {x \in DOMAIN listed \ {s} :
        /\ SessionMetadata(x).planId = SessionMetadata(s).planId
        /\ SessionActivity(x) # "exited"
        /\ listed[x].status \notin TERMINAL_STATUSES}

\* await sessionManager.list(projectId) resolves
RebaseList(s) ==
    LET siblings == Siblings(s, ListAll)
    IN  /\ tasks[s]["poll"].pc = "rebase_list"
        /\ meta' = MarkedKilled(ListAll)
        /\ rebases' = [rebases EXCEPT ![s].listed = "yes", ![s].targets = siblings,
                                      ![s].todo = siblings]
        /\ tasks' = [tasks EXCEPT ![s]["poll"].pc =
                        IF siblings = {} THEN "plan_check" ELSE "rebase_send"]
        /\ UNCHANGED <<env, now, states, trackers, sysTracker, pollTimer, polling,
                       allCompleteEmitted, inflight, pollPc, snap, events,
                       notifications, sends, budget, history, obs, fresh, call, plan,
                       spawns, readyCall, outcomes, summaryDue, store, planning>>

\* sessionManager.list rejects: "rebase notification failed, non-critical"
RebaseListFails(s) ==
    /\ tasks[s]["poll"].pc = "rebase_list"
    /\ rebases' = [rebases EXCEPT ![s].listed = "failed"]
    /\ tasks' = [tasks EXCEPT ![s]["poll"].pc = "plan_check"]
    /\ UNCHANGED <<env, now, meta, states, trackers, sysTracker, pollTimer, polling,
                   allCompleteEmitted, inflight, pollPc, snap, events, notifications,
                   sends, budget, history, obs, fresh, call, plan, spawns, readyCall,
                   outcomes, summaryDue, store, planning>>

\* the first failed send ends the loop
AbortAfterFailedSend(todo, x) == {}

\* catch { sibling may be dead, skip }: the loop goes on with the next sibling
AfterFailedSend(todo, x) == todo \ {x}

RebaseSent(s, x, todo) ==
    /\ rebases' = [rebases EXCEPT ![s].tried[x] = @ + 1, ![s].todo = todo]
    /\ tasks' = [tasks EXCEPT ![s]["poll"].pc =
                    IF todo = {} THEN "plan_check" ELSE "rebase_send"]

\* await sessionManager.send(sibling.id, rebaseMsg) resolves
RebaseSendOk(s) ==
    LET x == First(rebases[s].todo)
    IN  /\ tasks[s]["poll"].pc = "rebase_send"
        /\ sends' = [sends EXCEPT ![x] = @ + 1]
        /\ RebaseSent(s, x, rebases[s].todo \ {x})
        /\ UNCHANGED <<env, now, meta, states, trackers, sysTracker, pollTimer, polling,
                       allCompleteEmitted, inflight, pollPc, snap, events,
                       notifications, budget, history, obs, fresh, call, plan, spawns,
                       readyCall, outcomes, summaryDue, store, planning>>

\* await sessionManager.send rejects
RebaseSendFail(s) ==
    LET x == First(rebases[s].todo)
    IN  /\ tasks[s]["poll"].pc = "rebase_send"
        /\ RebaseSent(s, x, AfterFailedSend(rebases[s].todo, x))
        /\ UNCHANGED <<env, now, meta, states, trackers, sysTracker, pollTimer, polling,
                       allCompleteEmitted, inflight, pollPc, snap, events,
                       notifications, sends, budget, history, obs, fresh, call, plan,
                       spawns, readyCall, outcomes, summaryDue, store, planning>>

\* await planService.checkPlanCompletion resolves; if the plan is complete the
\* reaction plan-complete is executed, else the outcome is captured
PlanCheck(s) ==
    LET t == tasks[s]["poll"]
        complete == checkPlanCompletion(plan, [x \in Tasks |-> SessionManagerGet(x).status])
    IN  /\ t.pc = "plan_check"
        /\ IF complete /\ PlanCompleteReaction.action # NULL /\ PlanCompleteReaction.auto # FALSE
           THEN /\ tasks' = [tasks EXCEPT ![s]["poll"].pc = "plan_rx"]
                /\ UNCHANGED outcomes
           ELSE PlanFinish(s, t)
        /\ UNCHANGED <<env, now, meta, states, trackers, sysTracker, pollTimer, polling,
                       allCompleteEmitted, inflight, pollPc, snap, events,
                       notifications, sends, budget, history, obs, fresh, call, plan,
                       spawns, readyCall, rebases, summaryDue, store, planning>>

\* executeReaction(plan-complete), action notify: after `await sessionManager.get`
\* the tracker is created (no retries, no escalateAfter) and the event appended
PlanRx(s) ==
    /\ tasks[s]["poll"].pc = "plan_rx"
    /\ events' = Append(events, createEvent("reaction.triggered", s, 0, "plan-complete",
                                            FALSE, NULL, NULL))
    /\ tasks' = [tasks EXCEPT ![s]["poll"].pc = "plan_rx_notify"]
    /\ UNCHANGED <<env, now, meta, states, trackers, sysTracker, pollTimer, polling,
                   allCompleteEmitted, inflight, pollPc, snap, notifications, sends,
                   budget, history, obs, fresh, call, plan, spawns, readyCall, rebases,
                   outcomes, summaryDue, store, planning>>

\* await notifyHuman resolves, executeReaction returns, the outcome is captured
PlanRxNotify(s) ==
    /\ tasks[s]["poll"].pc = "plan_rx_notify"
    /\ notifications' = Append(notifications,
          Notification("reaction.triggered", s, NotifyPriority(PlanCompleteReaction)))
    /\ PlanFinish(s, tasks[s]["poll"])
    /\ UNCHANGED <<env, now, meta, states, trackers, sysTracker, pollTimer, polling,
                   allCompleteEmitted, inflight, pollPc, snap, events, sends, budget,
                   history, obs, fresh, call, plan, spawns, readyCall, rebases,
                   summaryDue, store, planning>>

PlanTaskStep(s) ==
    \/ PlanClassify(s)
    \/ PlanNotify(s)
    \/ SpawnTaskSkip(s)
    \/ SpawnTaskOk(s)
    \/ SpawnTaskFail(s)
    \/ RebaseList(s)
    \/ RebaseListFails(s)
    \/ RebaseSendOk(s)
    \/ RebaseSendFail(s)
    \/ PlanCheck(s)
    \/ PlanRx(s)
    \/ PlanRxNotify(s)

NextPlan ==
    \/ ApprovePlan
    \/ \E t \in Tasks : PlanEnvChange(t)
    \/ Start
    \/ Tick
    \/ PollStep
    \/ \E s \in Tasks : PlanTaskStep(s)

SpecPlan == InitPlan /\ [][NextPlan]_vars

(***************************************************************************)
(* Properties of plans.                                                    *)
(***************************************************************************)
Merged(s) == \E i \in DOMAIN history : history[i].sid = s /\ history[i].to = "merged"

\* the handler of the merge of s is past the rebase messages
RebaseOver(s) ==
    /\ Merged(s)
    /\ tasks[s]["poll"].pc \notin {"plan_notify", "spawn_task", "rebase_list", "rebase_send"}

\* C14 as stated: once the merge of a plan session is handled, every sibling that
\* was not terminal when the merge was recorded has been sent a rebase message at
\* least once.
C14_ActiveSiblingsSentRebase ==
    \A s \in Tasks :
        RebaseOver(s) => \A x \in rebases[s].active : rebases[s].tried[x] >= 1

\* C14, amended: if the listing of the sessions succeeds, every sibling it reports
\* as not terminal and not exited is sent the rebase message exactly once, whether
\* or not a send to another sibling failed, and no other session is sent one; a
\* sibling that was not terminal at the merge and is not sent one is terminal or
\* exited.  If the listing fails nothing is sent.
C14_ListedSiblingsSentRebaseOnce ==
    \A s \in Tasks :
        RebaseOver(s) =>
            /\ rebases[s].listed = "yes" =>
                  /\ \A x \in Tasks :
                        rebases[s].tried[x] = IF x \in rebases[s].targets THEN 1 ELSE 0
                  /\ \A x \in rebases[s].active \ rebases[s].targets :
                        \/ meta[x].status \in TERMINAL_STATUSES
                        \/ SessionActivity(x) = "exited"
            /\ rebases[s].listed = "failed" => \A x \in Tasks : rebases[s].tried[x] = 0

\* C14, its case: the merge of A is handled, B and C are its listed siblings, the
\* send to B failed and the send to C went through.
C14_SendToBFailedCSent ==
    /\ RebaseOver("A")
    /\ rebases["A"].targets = {"B", "C"}
    /\ sends["B"] = 0
    /\ sends["C"] = 1

C16_FanInSpawnsCOnce ==
    (/\ plan.deps = FanIn
     /\ plan.status = "executing"
     /\ \A t \in Tasks : spawns[t].failed = 0) =>
        /\ spawns["A"].count = 1
        /\ spawns["B"].count = 1
        /\ ~(Merged("A") /\ Merged("B")) => spawns["C"].count = 0
        /\ spawns["C"].count <= 1

\* the handler that found the plan complete has run the reaction plan-complete to
\* its end
PlanCompleteNotified ==
    \E i \in DOMAIN events :
        /\ events[i].key = "plan-complete"
        /\ tasks[events[i].sid]["poll"].pc # "plan_rx_notify"

AllPlanSessionsTerminal ==
    /\ \E t \in Tasks : plan.sessionId[t] # NULL
    /\ \A t \in Tasks : plan.sessionId[t] # NULL => meta[t].status \in TERMINAL_STATUSES

\* C18 as stated: once every session of an approved plan is terminal and the
\* lifecycle manager has found the plan complete and reacted to it, the persisted
\* status of the plan is done.
C18_CompletedPlanIsDone ==
    (/\ plan.status \in {"executing", "done"}
     /\ AllPlanSessionsTerminal
     /\ PlanCompleteNotified) => plan.status = "done"

OutcomesOf(s) == SelectSeq(outcomes, LAMBDA o : o.sid = s)

TerminalTransitionsOf(s) ==
    SelectSeq(history, LAMBDA h : h.sid = s /\ h.to \in TERMINAL_STATUSES)

\* C19 as stated: when the handler of a session is not running, the outcome records
\* of the session are one per transition of the session into a terminal status, in
\* order, and the outcome of each is the status that transition reached.
C19_OneMatchingOutcomePerTerminalTransition ==
    \A s \in Tasks :
        tasks[s]["poll"].pc = "idle" =>
            /\ Len(OutcomesOf(s)) = Len(TerminalTransitionsOf(s))
            /\ \A i \in DOMAIN OutcomesOf(s) :
                  /\ OutcomesOf(s)[i].to = TerminalTransitionsOf(s)[i].to
                  /\ OutcomesOf(s)[i].outcome = TerminalTransitionsOf(s)[i].to

(***************************************************************************)
(* The all-complete summary.  SpecSummary: the poll cycles of SpecPoll,    *)
(* and the session manager restores killed sessions.                       *)
(***************************************************************************)
\* Restore: a runtime is re-created for a killed session, the status becomes
\* spawning again
SessionManagerRestore(s) ==
    /\ budget > 0
    /\ meta[s].status = "killed"
    /\ meta' = [meta EXCEPT ![s].status = "spawning"]
    /\ env' = [env EXCEPT ![s] = IF meta[s].pr THEN "open" ELSE "working"]
    /\ budget' = budget - 1
    /\ UNCHANGED <<now, states, trackers, sysTracker, pollTimer, polling,
                   allCompleteEmitted, inflight, pollPc, snap, tasks, events,
                   notifications, sends, history, obs, fresh, call, plan, spawns,
                   readyCall, rebases, outcomes, summaryDue, store, planning>>

NextSummary ==
    \/ NextPoll
    \/ \E s \in Sessions : SessionManagerRestore(s)

SpecSummary == Init /\ [][NextSummary]_vars

\* the listing of the running cycle holds sessions, all of them terminal
ListedAllTerminal ==
    /\ \E s \in DOMAIN snap : snap[s] # NULL
    /\ \A s \in DOMAIN snap : snap[s] # NULL => snap[s] \in TERMINAL_STATUSES

\* C20 as stated: when the checks of a poll cycle have settled, the all-complete
\* reaction is started if and only if the cycle listed sessions, all of them
\* terminal, and either no summary was emitted yet or a listing has shown a
\* non-terminal session since the last one.
C20_SummaryOncePerCompletion ==
    [][(pollPc = "checking" /\ pollPc' # "checking") =>
          ((pollPc' = "sys_restore") <=> (ListedAllTerminal /\ summaryDue))]_vars

(***************************************************************************)
(* check(sessionId).  SpecCheck: the manager is not started; sessions are  *)
(* checked through check() alone, and the runtime of a session whose PR    *)
(* was merged is taken down.                                               *)
(***************************************************************************)
\* the runtime of a session with a merged PR ends
RuntimeEnds(s) ==
    /\ budget > 0
    /\ env[s] = "merged"
    /\ env' = [env EXCEPT ![s] = "dead"]
    /\ budget' = budget - 1
    /\ UNCHANGED <<now, meta, states, trackers, sysTracker, pollTimer, polling,
                   allCompleteEmitted, inflight, pollPc, snap, tasks, events,
                   notifications, sends, history, obs, fresh, call, plan, spawns,
                   readyCall, rebases, outcomes, summaryDue, store, planning>>

\* what an earlier run of the manager left of a session whose PR was merged
MergedMeta ==
    [status |-> "merged", pr |-> TRUE, att |-> [k \in Keys |-> 0],
     first |-> [k \in Keys |-> -1]]

InitCheck ==
    /\ \E start \in [Sessions -> {"fresh", "restored", "merged"}] :
          /\ env = [s \in Sessions |->
                      CASE start[s] = "fresh" -> "working"
                        [] start[s] = "restored" -> "open"
                        [] start[s] = "merged" -> "merged"]
          /\ meta = [s \in Sessions |->
                       CASE start[s] = "fresh" -> FreshMeta
                         [] start[s] = "restored" -> RestoredMeta
                         [] start[s] = "merged" -> MergedMeta]
          /\ fresh = [s \in Sessions |-> start[s] = "fresh"]
    /\ ManagerCreated(Sessions)
    /\ call = NoCall
    /\ PlanAbsent
    /\ StoreAbsent

NextCheck ==
    \/ \E s \in Sessions : EnvChange(s)
    \/ \E s \in Sessions : RuntimeEnds(s)
    \/ Advance
    \/ \E s \in Sessions : DirectCheck(s)
    \/ \E s \in Sessions : TaskStep(s, "direct")

SpecCheck == InitCheck /\ [][NextCheck]_vars

\* C21 as stated: while check() runs on a session it fetched in a terminal status,
\* no event is appended, no message is sent to the agent and no notification goes
\* out.
C21_CheckOfTerminalSessionIsSilent ==
    [][\A s \in Sessions :
          (/\ tasks[s]["direct"].pc # "idle"
           /\ tasks[s]["direct"].sess.status \in TERMINAL_STATUSES) =>
              /\ events' = events
              /\ notifications' = notifications
              /\ sends' = sends]_vars

(***************************************************************************)
(* Two checks in a row.  SpecTwice: the plugin answers are fixed before    *)
(* the first check(); when it has returned check() is called once more.    *)
(***************************************************************************)
\* the plugin answers change before the session is checked
EnvBefore(s) ==
    /\ states[s] = "none"
    /\ tasks[s]["direct"].pc = "idle"
    /\ EnvChange(s)

FirstCheck(s) ==
    /\ states[s] = "none"
    /\ DirectCheck(s)

\* the second check(): call keeps what the first check left behind
CheckAgain(s) ==
    /\ call = NoCall
    /\ states[s] # "none"
    /\ tasks[s]["direct"].pc = "idle"
    /\ tasks' = [tasks EXCEPT ![s]["direct"] = StartTask(s, SessionManagerGet(s))]
    /\ call' = [fn |-> "check", sessionId |-> s, events |-> events, history |-> history,
                notifications |-> notifications, sends |-> sends, meta |-> meta,
                trackers |-> trackers, states |-> states]
    /\ UNCHANGED <<env, now, meta, states, trackers, sysTracker, pollTimer, polling,
                   allCompleteEmitted, inflight, pollPc, snap, events, notifications,
                   sends, budget, history, obs, fresh, plan, spawns, readyCall, rebases,
                   outcomes, summaryDue, store, planning>>

NextTwice ==
    \/ \E s \in Sessions : EnvBefore(s)
    \/ Advance
    \/ \E s \in Sessions : FirstCheck(s)
    \/ \E s \in Sessions : CheckAgain(s)
    \/ \E s \in Sessions : TaskStep(s, "direct")

SpecTwice == InitCheck /\ [][NextTwice]_vars

SecondCheckReturned == call.fn = "check" /\ tasks[call.sessionId]["direct"].pc = "idle"

\* C22: when the second of two checks in a row has returned, it has detected no
\* transition, appended no event, sent nothing to the agent or to the notifiers, and
\* metadata, trackers and tracked statuses are what the first check left.
C22_SecondCheckChangesNothing ==
    SecondCheckReturned =>
        /\ history = call.history
        /\ events = call.events
        /\ notifications = call.notifications
        /\ sends = call.sends
        /\ meta = call.meta
        /\ trackers = call.trackers
        /\ states = call.states

\* C22, its case: the first check found a failing CI and sent the fix request, the
\* second check has returned.
C22_SecondCheckAfterCiFailed ==
    /\ SecondCheckReturned
    /\ states[call.sessionId] = "ci_failed"
    /\ sends[call.sessionId] = 1

(***************************************************************************)
(* The event store (event-store.ts).  SpecStore: one store is created on   *)
(* an empty events.jsonl with a limit maxEvents; events are appended and   *)
(* queried.  An event is its id, type and timestamp; a line of the file is *)
(* the serialized event.  store.appended is every event appended so far.   *)
(***************************************************************************)
MaxMaxEvents == 3

MaxAppends == 5

StoreEventTypes == {"pr.created", "ci.failing"}

serializeEvent(event) ==
    [id |-> event.id, type |-> event.type, timestamp |-> <<"iso", event.timestamp>>]

\* stands for the null deserializeEvent returns
NoEvent == [id |-> 0, type |-> "", timestamp |-> 0]

\* null for a line without id, type or timestamp
deserializeEvent(line) ==
    IF line.id = 0 \/ line.type = "" \/ line.timestamp = <<>> THEN NoEvent
    ELSE [id |-> line.id, type |-> line.type, timestamp |-> line.timestamp[2]]

Map(f(_), seq) == [i \in DOMAIN seq |-> f(seq[i])]

readAllEvents(file) ==
    SelectSeq(Map(deserializeEvent, file), LAMBDA e : e # NoEvent)

\* Array.prototype.slice(start) with start <= 0: a negative start counts from the
\* end, 0 is the start of the array
SliceFrom(seq, start) ==
    IF start = 0 \/ -start >= Len(seq) THEN seq
    ELSE SubSeq(seq, Len(seq) + start + 1, Len(seq))

\* the store after append(event)
append(st, event) ==
    LET over == st.lineCount >= st.maxEvents
        kept == SliceFrom(readAllEvents(st.file), -st.maxEvents + 1)
        file1 == IF over THEN Map(serializeEvent, kept) ELSE st.file
        count1 == IF over THEN Len(kept) ELSE st.lineCount
    IN  [st EXCEPT !.file = Append(file1, serializeEvent(event)),
                   !.lineCount = count1 + 1,
                   !.appended = Append(@, event)]

\* options.types absent
NoTypes == <<>>

matchesQuery(event, types) ==
    types = NoTypes \/ \E i \in DOMAIN types : types[i] = event.type

\* Array.prototype.sort by descending timestamp: stable, so events of one timestamp
\* keep their order
RECURSIVE NewestFirst(_)
NewestFirst(seq) ==
    IF seq = <<>> THEN <<>>
    ELSE LET top == CHOOSE i \in DOMAIN seq :
                        /\ \A j \in DOMAIN seq : seq[j].timestamp <= seq[i].timestamp
                        /\ \A j \in 1..(i - 1) : seq[j].timestamp < seq[i].timestamp
         IN  <<seq[top]>> \o NewestFirst(SubSeq(seq, 1, top - 1)
                                          \o SubSeq(seq, top + 1, Len(seq)))

\* query({types}) without offset and limit
query(st, types) ==
    NewestFirst(SelectSeq(readAllEvents(st.file), LAMBDA e : matchesQuery(e, types)))

\* createEventStore(configPath, projectPath, maxEvents) on a missing file
InitStore ==
    /\ env = [s \in Sessions |-> "working"]
    /\ meta = [s \in Sessions |-> FreshMeta]
    /\ fresh = [s \in Sessions |-> TRUE]
    /\ ManagerCreated(Sessions)
    /\ call = NoCall
    /\ PlanAbsent
    /\ \E m \in 1..MaxMaxEvents :
          store = [maxEvents |-> m, lineCount |-> 0, file |-> <<>>, appended |-> <<>>,
                   queried |-> FALSE, types |-> NoTypes, result |-> <<>>]

LastTimestamp ==
    IF store.appended = <<>> THEN 0 ELSE store.appended[Len(store.appended)].timestamp

\* append(event): the event is new, its timestamp is the time of its creation
StoreAppend ==
    /\ Len(store.appended) < MaxAppends
    /\ \E type \in StoreEventTypes, timestamp \in {LastTimestamp, LastTimestamp + 1} :
          store' = [append(store, [id |-> Len(store.appended) + 1, type |-> type,
                                   timestamp |-> timestamp])
                       EXCEPT !.queried = FALSE, !.types = NoTypes, !.result = <<>>]
    /\ UNCHANGED <<env, now, meta, states, trackers, sysTracker, pollTimer, polling,
                   allCompleteEmitted, inflight, pollPc, snap, tasks, events,
                   notifications, sends, budget, history, obs, fresh, call, plan,
                   spawns, readyCall, rebases, outcomes, summaryDue, planning>>

StoreQuery ==
    /\ ~store.queried
    /\ \E types \in {NoTypes, <<"ci.failing">>} :
          store' = [store EXCEPT !.queried = TRUE, !.types = types,
                                 !.result = query(store, types)]
    /\ UNCHANGED <<env, now, meta, states, trackers, sysTracker, pollTimer, polling,
                   allCompleteEmitted, inflight, pollPc, snap, tasks, events,
                   notifications, sends, budget, history, obs, fresh, call, plan,
                   spawns, readyCall, rebases, outcomes, summaryDue, planning>>

NextStore == StoreAppend \/ StoreQuery

SpecStore == InitStore /\ [][NextStore]_vars

Appended == Len(store'.appended) = Len(store.appended) + 1

\* C23 as stated: an append to a store whose file holds exactly maxEvents events
\* leaves the former events 2..maxEvents followed by the new event.
C23_AppendAtLimitDropsOldest ==
    [][(Appended /\ Len(store.file) = store.maxEvents) =>
          store'.file = Append(Tail(store.file),
                               serializeEvent(store'.appended[Len(store'.appended)]))]_vars

Min(a, b) == IF a <= b THEN a ELSE b

\* C24 as stated: after n appends the file holds the min(n, maxEvents) most recently
\* appended events in append order, and a query without filter returns at most
\* maxEvents events.
C24_FileHoldsMostRecentEvents ==
    LET n == Len(store.appended)
        m == Min(n, store.maxEvents)
    IN  /\ store.file = Map(serializeEvent, SubSeq(store.appended, n - m + 1, n))
        /\ (store.queried /\ store.types = NoTypes) => Len(store.result) <= store.maxEvents

(***************************************************************************)
(* Planning.  SpecPlanning: createPlan has spawned the planning agent; the *)
(* agent writes its output file or not, its session exits, and getPlan,    *)
(* editPlan and approvePlan are called in any order.  The project has a    *)
(* tracker.  output is "tasks" for a file with a non-empty task list,      *)
(* "empty" for valid JSON without tasks, "garbage" for a file JSON.parse   *)
(* rejects.                                                                *)
(***************************************************************************)
NoTasks == <<>>

InitPlanning ==
    /\ plan = [status |-> "planning", deps |-> NoTasks, sessionId |-> [t \in Tasks |-> NULL]]
    /\ planning = [tracker |-> TRUE, output |-> "none", planner |-> "active", issues |-> {}]
    /\ env = [t \in Tasks |-> "none"]
    /\ meta = [t \in Tasks |-> NoMeta]
    /\ fresh = [t \in Tasks |-> TRUE]
    /\ ManagerCreated(Tasks)
    /\ call = NoCall
    /\ spawns = [t \in Tasks |-> NoSpawn]
    /\ readyCall = [t \in Tasks |-> NoReadyCall]
    /\ rebases = [t \in Tasks |-> NoRebase]
    /\ StoreAbsent

\* the planning agent writes <planId>-output.json
AgentWritesOutput ==
    /\ planning.planner = "active"
    /\ planning.output = "none"
    /\ \E o \in {"tasks", "empty", "garbage"} : planning' = [planning EXCEPT !.output = o]
    /\ UNCHANGED <<env, now, meta, states, trackers, sysTracker, pollTimer, polling,
                   allCompleteEmitted, inflight, pollPc, snap, tasks, events,
                   notifications, sends, budget, history, obs, fresh, call, plan,
                   spawns, readyCall, rebases, outcomes, summaryDue, store>>

\* the planning session's activity becomes exited
PlannerExits ==
    /\ planning.planner = "active"
    /\ planning' = [planning EXCEPT !.planner = "exited"]
    /\ UNCHANGED <<env, now, meta, states, trackers, sysTracker, pollTimer, polling,
                   allCompleteEmitted, inflight, pollPc, snap, tasks, events,
                   notifications, sends, budget, history, obs, fresh, call, plan,
                   spawns, readyCall, rebases, outcomes, summaryDue, store>>

\* the plan getPlan returns and persists, lookup telling whether sessionManager.get
\* of the planning session resolves
getPlan(pl, pg, lookup, shape) ==
    IF pl.status # "planning" THEN pl
    ELSE IF pg.output = "tasks" THEN [pl EXCEPT !.status = "ready", !.deps = shape]
    ELSE IF pg.output = "empty" THEN pl
    ELSE IF pg.output = "garbage" THEN [pl EXCEPT !.status = "failed"]
    ELSE IF lookup /\ pg.planner = "exited" THEN [pl EXCEPT !.status = "failed"]
    ELSE pl

GetPlan ==
    \E lookup \in BOOLEAN, shape \in PlanShapes :
        /\ plan' = getPlan(plan, planning, lookup, shape)
        /\ call' = [fn |-> "getPlan", error |-> FALSE, was |-> plan.status,
                    output |-> planning.output, planner |-> planning.planner,
                    lookup |-> lookup]
        /\ UNCHANGED <<env, now, meta, states, trackers, sysTracker, pollTimer, polling,
                       allCompleteEmitted, inflight, pollPc, snap, tasks, events,
                       notifications, sends, budget, history, obs, fresh, spawns,
                       readyCall, rebases, outcomes, summaryDue, store, planning>>

\* editPlan(projectId, planId, tasks)
EditPlan ==
    \E shape \in PlanShapes :
        /\ IF NotReady(plan)
           THEN /\ call' = [fn |-> "editPlan", error |-> TRUE]
                /\ plan' = plan
           ELSE /\ call' = [fn |-> "editPlan", error |-> FALSE]
                /\ plan' = [plan EXCEPT !.deps = shape]
        /\ UNCHANGED <<env, now, meta, states, trackers, sysTracker, pollTimer, polling,
                       allCompleteEmitted, inflight, pollPc, snap, tasks, events,
                       notifications, sends, budget, history, obs, fresh, spawns,
                       readyCall, rebases, outcomes, summaryDue, store, planning>>

\* approvePlan throws
ApprovePlanThrows ==
    /\ NotReady(plan)
    /\ call' = [fn |-> "approvePlan", error |-> TRUE]
    /\ UNCHANGED <<env, now, meta, states, trackers, sysTracker, pollTimer, polling,
                   allCompleteEmitted, inflight, pollPc, snap, tasks, events,
                   notifications, sends, budget, history, obs, fresh, plan, spawns,
                   readyCall, rebases, outcomes, summaryDue, store, planning>>

NextPlanning ==
    \/ AgentWritesOutput
    \/ PlannerExits
    \/ GetPlan
    \/ EditPlan
    \/ ApprovePlan
    \/ ApprovePlanThrows

SpecPlanning == InitPlanning /\ [][NextPlanning]_vars

\* C25: editPlan and approvePlan throw exactly when the plan is not ready, and a
\* call that throws leaves the persisted plan, the issues and the sessions as they
\* were.
C25_NotReadyPlanIsRejectedUntouched ==
    [][(call'.fn \in {"editPlan", "approvePlan"} /\ call' # call) =>
          /\ call'.error <=> plan.status # "ready"
          /\ call'.error =>
                /\ plan' = plan
                /\ planning' = planning
                /\ spawns' = spawns
                /\ meta' = meta]_vars

\* C25, its case: approvePlan was called on a plan that is executing and threw; the
\* plan has its sessions.
C25_ApproveOfExecutingPlanThrew ==
    /\ call = [fn |-> "approvePlan", error |-> TRUE]
    /\ plan.status = "executing"
    /\ \E t \in Tasks : spawns[t].count = 1

\* C26: a getPlan of a planning plan makes it ready when the output holds tasks, and
\* failed when the planning session has exited (and can be looked up) without a
\* usable plan; it is not left in planning.
C26_PlanningEndsOnceSessionExited ==
    (call.fn = "getPlan" /\ call.was = "planning") =>
        /\ call.output = "tasks" => plan.status = "ready"
        /\ (call.output # "tasks" /\ call.planner = "exited" /\ call.lookup) =>
              plan.status = "failed"

(***************************************************************************)
(* Failed sends.                                                           *)
(***************************************************************************)
\* SpecSend: the manager driven by its timer, with sends that may fail.
NextSend ==
    \/ NextPoll
    \/ \E s \in Sessions : RxSendFail(s, "poll")

SpecSend == Init /\ [][NextSend]_vars

\* every cycle so far observed s in ci_failed with the agent unaware; no send was
\* skipped and none went through
SendsKeptFailing(s, cycles) ==
    /\ EnteredCiFailedOnce(s)
    /\ obs[s] = [i \in 1..cycles |-> FALSE]
    /\ \A i \in DOMAIN ReactionTrail(s) : ReactionTrail(s)[i] # SkippedSend
    /\ sends[s] = 0
    /\ PollIdle /\ now = 0

\* C27: ci-failed is send-to-agent with retries 2 and the send fails.  The failed
\* attempt stays counted and the reaction is attempted again by the next cycle that
\* finds the session still in ci_failed: after two such cycles two attempts are
\* counted, and after three reaction.escalated has been emitted.
C27_FailedSendIsRetriedAndEscalates ==
    \A s \in Sessions :
        /\ SendsKeptFailing(s, 1) => trackers[s]["ci-failed"].attempts = 1
        /\ SendsKeptFailing(s, 2) => trackers[s]["ci-failed"].attempts = 2
        /\ SendsKeptFailing(s, 3) => ReactionTrail(s) = <<Escalated(3)>>

(***************************************************************************)
(* The fallback of determineStatus.                                        *)
(***************************************************************************)
\* no PR is known or found, or the project has no SCM
NoPrOrNoScm(c) ==
    \/ ~c.probe.scm
    \/ (~c.sess.pr /\ c.probe.detect = "none")

\* C28: when the runtime is not dead, the activity probe decides nothing (no output,
\* or not waiting for input and the process runs) and there is no PR or no SCM,
\* determineStatus returns working for spawning, stuck and needs_input and the
\* current status for every other one, and writes no PR.
C28_FallbackStatus ==
    (/\ Returned("determineStatus")
     /\ call.probe.alive # "no" /\ ActivityUndecided(call.probe) /\ NoPrOrNoScm(call))
    => /\ call.sess.status \in {"spawning", "stuck", "needs_input"} =>
             call.result.status = "working"
       /\ call.sess.status \notin {"spawning", "stuck", "needs_input"} =>
             call.result.status = call.sess.status
       /\ ~call.result.prWritten

\* C28, its case: a stuck session with a PR in a project without SCM is working.
C28_StuckWithoutScmIsWorking ==
    /\ Returned("determineStatus")
    /\ call.probe.alive = "yes" /\ ActivityUndecided(call.probe)
    /\ ~call.probe.scm /\ call.sess.pr
    /\ call.sess.status = "stuck"
    /\ call.result.status = "working"

(***************************************************************************)
(* A new manager and a session whose runtime died.                         *)
(***************************************************************************)
\* a poll cycle of a manager that never tracked s has ended, and its list() found
\* the runtime of s dead and reported s killed: the status persisted before was not
\* terminal and no transition of s was ever detected
ListedKilledUntracked(s) ==
    /\ PollIdle
    /\ meta[s].status = "killed"
    /\ SessionHistory(s) = <<>>

\* C30: a manager with an empty status cache detects, in the poll cycle whose list()
\* reports a session killed, the transition from the persisted status to killed:
\* session.killed is appended and a human is notified.
C30_KilledDetectedAfterRestart ==
    \A s \in Sessions :
        ListedKilledUntracked(s) =>
            /\ SessionEvents(s, {"session.killed"}) # <<>>
            /\ \E i \in DOMAIN notifications : notifications[i].sid = s

(***************************************************************************)
(* Probes that throw.                                                      *)
(***************************************************************************)
\* what the read-only probe of that name answers
ProbeAnswer(p, name) ==
    CASE name = "getOutput" -> p.output
      [] name = "isProcessRunning" -> p.process
      [] name = "detectPR" -> p.detect
      [] name = "getPRState" -> p.prState
      [] name = "getCISummary" -> p.ci
      [] name = "getReviewDecision" -> p.review
      [] name = "getMergeability" -> p.mergeable
      [] OTHER -> "none"

\* one of the probes the call invoked threw
ProbeThrew(c) ==
    \E i \in DOMAIN c.result.invoked :
        ProbeAnswer(c.probe, c.result.invoked[i]) = "throw"

\* C29: when a read-only probe throws during determineStatus, the status returned is
\* the session's status, whatever that status is: the check sees no transition.
C29_ThrowingProbeKeepsStatus ==
    (Returned("determineStatus") /\ ProbeThrew(call))
    => call.result.status = call.sess.status

(***************************************************************************)
(* checkSession: who hears of a transition.  SpecRoute applies the routing *)
(* of one transition to every event type, global reaction and project      *)
(* override.  A reaction is an object with the keys action and auto;       *)
(* "unset" is a key the project override does not have, "undefined" a key  *)
(* without value.                                                          *)
(***************************************************************************)
ReactionConfigs ==
    [defined : BOOLEAN, action : {"undefined", "send-to-agent", "notify"},
     auto : {"undefined", "true", "false"}]

ReactionOverrides ==
    [defined : BOOLEAN, action : {"unset", "send-to-agent", "notify"},
     auto : {"unset", "true", "false"}]

\* the project's reaction replaces the global one
replaceReaction(globalReaction, projectReaction) ==
    IF ~projectReaction.defined THEN globalReaction
    ELSE [defined |-> TRUE,
          action |-> IF projectReaction.action # "unset" THEN projectReaction.action
                     ELSE "undefined",
          auto |-> IF projectReaction.auto # "unset" THEN projectReaction.auto
                   ELSE "undefined"]

\* projectReaction ? { ...globalReaction, ...projectReaction } : globalReaction
mergeReaction(globalReaction, projectReaction) ==
    IF ~projectReaction.defined THEN globalReaction
    ELSE [defined |-> TRUE,
          action |-> IF projectReaction.action # "unset" THEN projectReaction.action
                     ELSE IF globalReaction.defined THEN globalReaction.action
                     ELSE "undefined",
          auto |-> IF projectReaction.auto # "unset" THEN projectReaction.auto
                   ELSE IF globalReaction.defined THEN globalReaction.auto
                   ELSE "undefined"]

\* the transition branch from eventToReactionKey on: whether executeReaction is
\* called and whether notifyHuman is called directly
routeTransition(eventType, globalReaction, projectReaction) ==
    LET reactionKey == eventToReactionKey(eventType)
        reactionConfig == mergeReaction(globalReaction, projectReaction)
        reactionHandledNotify ==
            /\ reactionKey # NULL
            /\ reactionConfig.defined /\ reactionConfig.action # "undefined"
            /\ (reactionConfig.auto # "false" \/ reactionConfig.action = "notify")
    IN  [dispatched |-> reactionHandledNotify,
         notified |-> ~reactionHandledNotify /\ inferPriority(eventType) # "info"]

RoutedStatuses ==
    {"working", "pr_open", "ci_failed", "review_pending", "changes_requested", "approved",
     "mergeable", "merged", "needs_input", "stuck", "errored", "killed"}

RouteCalls ==
    [fn : {"routeTransition"}, from : {"working", "changes_requested"}, to : RoutedStatuses,
     globalReaction : ReactionConfigs, projectReaction : ReactionOverrides,
     returned : {FALSE}, result : {NULL}]

InitRoute ==
    /\ env = [s \in Sessions |-> "working"]
    /\ meta = [s \in Sessions |-> FreshMeta]
    /\ fresh = [s \in Sessions |-> TRUE]
    /\ ManagerCreated(Sessions)
    /\ PlanAbsent
    /\ StoreAbsent
    /\ call \in RouteCalls

RouteTransitionReturns ==
    /\ call.fn = "routeTransition"
    /\ ~call.returned
    /\ call' = [call EXCEPT !.returned = TRUE,
                            !.result = routeTransition(statusToEventType(call.from, call.to),
                                                       call.globalReaction,
                                                       call.projectReaction)]
    /\ UNCHANGED <<env, now, meta, states, trackers, sysTracker, pollTimer, polling,
                   allCompleteEmitted, inflight, pollPc, snap, tasks, events,
                   notifications, sends, budget, history, obs, fresh, plan, spawns,
                   readyCall, rebases, outcomes, summaryDue, store, planning>>

NextRoute == RouteTransitionReturns

SpecRoute == InitRoute /\ [][NextRoute]_vars

\* the value a key has in the reaction used: the project's if it has the key, else
\* the global one's
KeyInEffect(c, k) ==
    IF c.projectReaction.defined /\ c.projectReaction[k] # "unset" THEN c.projectReaction[k]
    ELSE IF c.globalReaction.defined THEN c.globalReaction[k]
    ELSE "undefined"

\* C31: on a transition whose event has a reaction key, the reaction is dispatched and
\* nobody is notified directly when the reaction in effect has an action and either
\* auto is not false or the action is notify; in every other case nothing is
\* dispatched and humans are notified directly exactly when the event's priority is
\* not info.
C31_ReactionOrDirectNotification ==
    Returned("routeTransition") =>
        LET eventType == statusToEventType(call.from, call.to)
            configured == /\ eventToReactionKey(eventType) # NULL
                          /\ call.globalReaction.defined \/ call.projectReaction.defined
                          /\ KeyInEffect(call, "action") # "undefined"
                          /\ \/ KeyInEffect(call, "auto") # "false"
                             \/ KeyInEffect(call, "action") = "notify"
        IN  IF configured
            THEN call.result = [dispatched |-> TRUE, notified |-> FALSE]
            ELSE call.result = [dispatched |-> FALSE,
                                notified |-> inferPriority(eventType) # "info"]

\* C31, its case: ci-failed is send-to-agent globally and the project sets auto to
\* false only; the reaction is not dispatched and the failing CI is notified directly.
C31_AutoOffNotifiesDirectly ==
    /\ Returned("routeTransition")
    /\ call.to = "ci_failed"
    /\ call.globalReaction = [defined |-> TRUE, action |-> "send-to-agent", auto |-> "true"]
    /\ call.projectReaction = [defined |-> TRUE, action |-> "unset", auto |-> "false"]
    /\ call.result = [dispatched |-> FALSE, notified |-> TRUE]

(***************************************************************************)
(* Pruning.  SpecPrune: the manager driven by its timer, and sessions that *)
(* are cleaned up between their checks and no longer listed.               *)
(***************************************************************************)
\* the session is cleaned up: its metadata file is gone
Archive(s) ==
    /\ meta[s].status # NULL
    /\ \A sl \in Slots : tasks[s][sl].pc = "idle"
    /\ meta' = [meta EXCEPT ![s].status = NULL]
    /\ UNCHANGED <<env, now, states, trackers, sysTracker, pollTimer, polling,
                   allCompleteEmitted, inflight, pollPc, snap, tasks, events,
                   notifications, sends, budget, history, obs, fresh, call, plan,
                   spawns, readyCall, rebases, outcomes, summaryDue, store, planning>>

NextPrune ==
    \/ NextPoll
    \/ \E s \in Sessions : Archive(s)

SpecPrune == Init /\ [][NextPrune]_vars

\* the step that ends a poll cycle which obtained a list
CycleEnds == pollPc \in {"checking", "sys_notify"} /\ pollPc' = "idle"

\* neither map has an entry of a session missing from the list of the cycle
NoEntryOfUnlisted ==
    \A s \in Sessions :
        snap[s] = NULL =>
            /\ states'[s] = "none"
            /\ \A k \in DOMAIN trackers[s] : trackers'[s][k] = NoTracker

NumPeers == 2

Peers == 1..NumPeers

InitThrow ==
    /\ env = [s \in Peers |-> "working"]
    /\ meta = [s \in Peers |-> FreshMeta]
    /\ fresh = [s \in Peers |-> TRUE]
    /\ ManagerCreated(Peers)
    /\ call = [fn |-> "checkSession", threw |-> {}]
    /\ PlanAbsent
    /\ StoreAbsent

\* the rejection ends the checks of the whole cycle
AbortPeers(s) == [x \in DOMAIN tasks |-> [tasks[x] EXCEPT !["poll"] = IdleTask]]

\* Promise.allSettled: the rejected call is settled, the others go on
AfterRejection(s) == [tasks EXCEPT ![s]["poll"] = IdleTask]

CheckThrows(s) ==
    /\ tasks[s]["poll"].pc \in {"classify", "rx_restore"}
    /\ tasks' = AfterRejection(s)
    /\ call' = [call EXCEPT !.threw = @ \cup {s}]
    /\ UNCHANGED <<env, now, meta, states, trackers, sysTracker, pollTimer, polling,
                   allCompleteEmitted, inflight, pollPc, snap, events, notifications,
                   sends, budget, history, obs, fresh, plan, spawns, readyCall, rebases,
                   outcomes, summaryDue, store, planning>>

\* the plugin answers change for the second session; the first stays working
NextThrow ==
    \/ EnvChange(NumPeers)
    \/ Start
    \/ Tick
    \/ PollList
    \/ PollSettle
    \/ \E s \in Peers : TaskStep(s, "poll")
    \/ \E s \in Peers : CheckThrows(s)

SpecThrow == InitThrow /\ [][NextThrow]_vars

\* C33: when a poll cycle ends, every session that was selected for it and whose
\* check never threw has been classified (it has a tracked status), whether or not
\* the check of another session threw; the cycle ends with the guard released, so the
\* next tick runs a cycle.
C33_ThrowingCheckSparesPeers ==
    [][CycleEnds =>
          /\ \A s \in Peers :
                (snap[s] \notin {NULL, "merged", "killed"} /\ s \notin call.threw) =>
                    states'[s] # "none"
          /\ \A s \in Peers : tasks'[s]["poll"].pc = "idle"
          /\ ~polling']_vars

\* C33, its case: the check of session 1 threw before it was classified, and the
\* transition of session 2 was handled in the cycle, which has ended.
C33_PeerHandledAfterThrow ==
    /\ PollIdle
    /\ call.threw = {1}
    /\ states[1] = "none"
    /\ SessionHistory(2) # <<>>
    /\ SessionEvents(2, {"pr.created"}) # <<>>

(***************************************************************************)
(* Review batches.  SpecReview applies the handling of one batch item in   *)
(* status reviewing, of getBatch, to every answer of the session manager   *)
(* and the SCM.  phrases are the keywords the body of the latest review    *)
(* holds, as written.                                                      *)
(***************************************************************************)
ReviewPhrases == {"lgtm", "APPROVE", "request changes", "CHANGES REQUESTED", "REQUEST_CHANGES"}

\* String.prototype.toUpperCase on the keywords
toUpperCase(phrase) ==
    CASE phrase = "lgtm" -> "LGTM"
      [] phrase = "request changes" -> "REQUEST CHANGES"
      [] OTHER -> phrase

\* the decision after the fallback that reads the latest review's body
parsedDecision(decision, reviews, phrases) ==
    LET bodyUpper == IF reviews = "body" THEN {toUpperCase(x) : x \in phrases} ELSE {}
    IN  IF decision \notin {"none", "pending"} THEN decision
        ELSE IF bodyUpper \cap {"REQUEST_CHANGES", "REQUEST CHANGES", "CHANGES REQUESTED"} # {}
        THEN "changes_requested"
        ELSE IF bodyUpper \cap {"LGTM", "APPROVE"} # {} THEN "approved"
        ELSE decision

\* item.status after the block for an item in status reviewing
reviewingItemStatus(a) ==
    IF a.session # "exited" THEN "reviewing"
    ELSE IF ~a.scm THEN "rejected"
    ELSE IF a.decision = "throw" THEN "reviewing"
    ELSE IF a.decision \in {"none", "pending"} /\ a.reviews = "throw" THEN "reviewing"
    ELSE LET decision == parsedDecision(a.decision, a.reviews, a.phrases)
         IN  IF decision = "approved" THEN "approved"
             ELSE IF decision = "changes_requested"
             THEN (IF ~a.autoFix THEN "rejected"
                   ELSE IF a.reviews = "throw" \/ a.spawn = "throw" THEN "rejected"
                   ELSE "fixing")
             ELSE "approved"

ReviewCalls ==
    [fn : {"getBatch"},
     item : [session : {"exited", "active", "missing", "throw"}, scm : BOOLEAN,
             decision : {"approved", "changes_requested", "pending", "none", "throw"},
             reviews : {"empty", "body", "throw"}, phrases : SUBSET ReviewPhrases,
             autoFix : BOOLEAN, spawn : {"ok", "throw"}],
     returned : {FALSE}, result : {NULL}]

InitReview ==
    /\ env = [s \in Sessions |-> "working"]
    /\ meta = [s \in Sessions |-> FreshMeta]
    /\ fresh = [s \in Sessions |-> TRUE]
    /\ ManagerCreated(Sessions)
    /\ PlanAbsent
    /\ StoreAbsent
    /\ call \in ReviewCalls

GetBatchReturns ==
    /\ call.fn = "getBatch"
    /\ ~call.returned
    /\ call' = [call EXCEPT !.returned = TRUE, !.result = reviewingItemStatus(call.item)]
    /\ UNCHANGED <<env, now, meta, states, trackers, sysTracker, pollTimer, polling,
                   allCompleteEmitted, inflight, pollPc, snap, tasks, events,
                   notifications, sends, budget, history, obs, fresh, plan, spawns,
                   readyCall, rebases, outcomes, summaryDue, store, planning>>

NextReview == GetBatchReturns

SpecReview == InitReview /\ [][NextReview]_vars

\* C34: when the review agent has exited, the SCM's review decision is none or
\* pending and the latest review's body holds neither an approve nor a
\* request-changes keyword, the item is not marked approved.
C34_NoSignalIsNotApproved ==
    (/\ Returned("getBatch")
     /\ call.item.session = "exited" /\ call.item.scm
     /\ call.item.decision \in {"none", "pending"}
     /\ call.item.reviews \in {"empty", "body"}
     /\ call.item.reviews = "body" => call.item.phrases = {})
    => call.result # "approved"

(***************************************************************************)
(* pr.created.                                                             *)
(***************************************************************************)
\* C35: pr.created is appended at most once for a session (and with it the
\* pr-created reaction runs at most once): a return to pr_open from ci_failed,
\* review_pending, approved or mergeable appends no further pr.created.
C35_PrCreatedOnce ==
    \A s \in Sessions : Len(SessionEvents(s, {"pr.created"})) <= 1

(***************************************************************************)
(* Tasks and their sessions.                                               *)
(***************************************************************************)
\* C36: whatever the plan and however the spawnReadyTasks calls interleave, a task
\* that waits for dependencies is given at most one session.
C36_WaitingTaskSpawnedOnce ==
    \A t \in Tasks :
        (plan.status = "executing" /\ plan.deps[t] # {}) => spawns[t].count <= 1

(***************************************************************************)
(* Retrospectives.  SpecRetro: the manager has a retrospective service and *)
(* session-failed is spawn-retrospective.  Session 1 is a coding session;  *)
(* the other ids are free for the sessions analyze spawns.  spawns[s]      *)
(* counts the analyze calls made for s.                                    *)
(***************************************************************************)
MaxRetroSessions == 5

RetroIds == 1..MaxRetroSessions

InitRetro ==
    /\ env = [s \in RetroIds |-> IF s = 1 THEN "working" ELSE "none"]
    /\ meta = [s \in RetroIds |-> IF s = 1 THEN FreshMeta
                                  ELSE [FreshMeta EXCEPT !.status = NULL]]
    /\ fresh = [s \in RetroIds |-> TRUE]
    /\ ManagerCreated(RetroIds)
    /\ call = NoCall
    /\ plan = NoPlan
    /\ planning = NoPlanning
    /\ spawns = [s \in RetroIds |-> NoSpawn]
    /\ readyCall = <<>>
    /\ rebases = <<>>
    /\ StoreAbsent

\* the agent of a session finishes: its process is gone
RetroAgentExits(s) ==
    /\ meta[s].status # NULL
    /\ env[s] = "working"
    /\ env' = [env EXCEPT ![s] = "exited"]
    /\ UNCHANGED <<now, meta, states, trackers, sysTracker, pollTimer, polling,
                   allCompleteEmitted, inflight, pollPc, snap, tasks, events,
                   notifications, sends, budget, history, obs, fresh, call, plan,
                   spawns, readyCall, rebases, outcomes, summaryDue, store, planning>>

\* checkSession has recorded a terminal transition of s that is not to merged and
\* has not yet reached its retrospective block
RetroPending(s) ==
    /\ \E i \in DOMAIN history :
          /\ history[i].sid = s
          /\ history[i].to \in TERMINAL_STATUSES \ {"merged"}
    /\ spawns[s] = NoSpawn
    /\ tasks[s]["poll"].pc = "idle"

FreeIds == {n \in RetroIds : meta[n].status = NULL}

\* retrospectiveService.analyze(session.id): sessionManager.spawn resolves
RetroAnalyze(s) ==
    /\ RetroPending(s)
    /\ FreeIds # {}
    /\ LET n == CHOOSE x \in FreeIds : \A y \in FreeIds : x <= y
       IN  /\ meta' = [meta EXCEPT ![n] = FreshMeta]
           /\ env' = [env EXCEPT ![n] = "working"]
    /\ spawns' = [spawns EXCEPT ![s].count = 1]
    /\ UNCHANGED <<now, states, trackers, sysTracker, pollTimer, polling,
                   allCompleteEmitted, inflight, pollPc, snap, tasks, events,
                   notifications, sends, budget, history, obs, fresh, call, plan,
                   readyCall, rebases, outcomes, summaryDue, store, planning>>

\* analyze rejects (no id is left, or the spawn fails): caught, non-fatal
RetroAnalyzeFails(s) ==
    /\ RetroPending(s)
    /\ spawns' = [spawns EXCEPT ![s].failed = 1]
    /\ UNCHANGED <<env, now, meta, states, trackers, sysTracker, pollTimer, polling,
                   allCompleteEmitted, inflight, pollPc, snap, tasks, events,
                   notifications, sends, budget, history, obs, fresh, call, plan,
                   readyCall, rebases, outcomes, summaryDue, store, planning>>

\* Promise.allSettled resolves once the retrospective blocks are through
RetroPollSettle ==
    /\ \A s \in RetroIds : ~RetroPending(s)
    /\ PollSettle

NextRetro ==
    \/ \E s \in RetroIds : RetroAgentExits(s)
    \/ Start
    \/ Tick
    \/ PollList
    \/ RetroPollSettle
    \/ SysRestore
    \/ SysNotify
    \/ \E s \in RetroIds : Classify(s, "poll")
    \/ \E s \in RetroIds : RetroAnalyze(s)
    \/ \E s \in RetroIds : RetroAnalyzeFails(s)

SpecRetro == InitRetro /\ [][NextRetro]_vars

\* C37: the terminal transition of a session that analyze spawned spawns no further
\* retrospective session: with one coding session, which fails, at most one
\* retrospective session ever exists.
C37_NoRetrospectiveOfRetrospective ==
    /\ \A s \in RetroIds \ {1} : spawns[s].count = 0
    /\ Cardinality({s \in RetroIds \ {1} : meta[s].status # NULL}) <= 1

(***************************************************************************)
(* Merged sessions whose runtime is torn down.  SpecMerged: the manager    *)
(* driven by its timer; the runtime of a session with a merged PR may end. *)
(***************************************************************************)
NextMerged ==
    \/ NextPoll
    \/ \E s \in Sessions : RuntimeEnds(s)

SpecMerged == Init /\ [][NextMerged]_vars

\* C38: once the manager has recorded a session as merged, no step changes the
\* recorded status or appends an event for the session, also when list() reports
\* the session killed afterwards.
C38_MergedIsAbsorbing ==
    [][\A s \in Sessions :
          states[s] = "merged" =>
              /\ states'[s] = "merged"
              /\ SessionEvents(s, StatusEventTypes)' = SessionEvents(s, StatusEventTypes)]_vars

(***************************************************************************)
(* The plan-complete reaction.                                             *)
(***************************************************************************)
PlanCompleteDispatches == SelectSeq(events, LAMBDA e : e.key = "plan-complete")

\* C39: the plan-complete reaction is dispatched at most once for the plan.
C39_PlanCompleteOnce == Len(PlanCompleteDispatches) <= 1

(***************************************************************************)
(* Reaction analytics over the manager's event log.                        *)
(***************************************************************************)
\* eventStore.queryEvents({types}): the events of the given types, in log order
queryEvents(types) == SelectSeq(events, LAMBDA e : e.type \in types)

\* data.resolved as the manager writes it: computed from the status the session left
\* ci_failed for
dataResolved(e) == CiResolved(e.to)

\* sessionAttempts: the ci.fix_sent events counted per session
sessionAttempts ==
    LET fixSentEvents == queryEvents({"ci.fix_sent"})
    IN  [s \in {fixSentEvents[i].sid : i \in DOMAIN fixSentEvents} |->
            Len(SelectSeq(fixSentEvents, LAMBDA e : e.sid = s))]

\* resolvedSessions: the sessions of the ci.passing and ci.fix_failed events marked
\* resolved
resolvedSessions ==
    LET outcomeEvents == queryEvents({"ci.passing"}) \o queryEvents({"ci.fix_failed"})
    IN  {outcomeEvents[i].sid : i \in {j \in DOMAIN outcomeEvents : dataResolved(outcomeEvents[j])}}

\* successRate is kept as the fraction num/den; den = 0 stands for the rate 0
getReactionEffectiveness ==
    LET successCount == Cardinality(resolvedSessions)
        sessionsWithAttempts == Cardinality(DOMAIN sessionAttempts)
    IN  [reactionKey |-> "ci-failed",
         totalAttempts |-> Len(queryEvents({"ci.fix_sent"})),
         successCount |-> successCount,
         sessionsWithAttempts |-> sessionsWithAttempts,
         successRate |-> IF sessionsWithAttempts > 0
                         THEN [num |-> successCount, den |-> sessionsWithAttempts]
                         ELSE [num |-> 0, den |-> 0]]

\* C40: over a log that holds every event of its sessions (each session started
\* with nothing persisted), successCount is at most the number of sessions with a
\* ci.fix_sent event, the success rate is at most 1, and every session with a
\* ci.passing event marked resolved has a ci.fix_sent event.
C40_SuccessWithinAttempts ==
    LET r == getReactionEffectiveness
    IN  (\A s \in Sessions : fresh[s]) =>
        /\ r.successCount <= r.sessionsWithAttempts
        /\ r.successRate.num <= r.successRate.den
        /\ \A s \in Sessions :
              (\E i \in DOMAIN events : /\ events[i].sid = s
                                        /\ events[i].type = "ci.passing"
                                        /\ dataResolved(events[i]))
              => SessionEvents(s, {"ci.fix_sent"}) # <<>>

====
